---- MODULE Spec2Model ----
(***************************************************************************)
(* Note archive of productivity-skills/note-taking: entry extraction,      *)
(* relevance scoring, search, append-to-entry and index rebuild of         *)
(* scripts/notes_manager.py, with the older hooks/notes_manager.py scorer. *)
(*                                                                         *)
(* A string is a tuple of one-character strings, a document is the string  *)
(* of its file, and a date is the proleptic Gregorian day number that      *)
(* Python's date.toordinal() gives.                                        *)
(***************************************************************************)
EXTENDS Integers, Sequences, FiniteSets, TLC

VARIABLES docs, index, now, resp, pre, hist, pc, loc, sc

vars == <<docs, index, now, resp, pre, hist, pc, loc, sc>>

(***************************************************************************)
(* Python string primitives used by the code                               *)
(***************************************************************************)
NL == "\n"

Whitespace == {" ", NL, "\t"}

UpperChars ==
  <<"A","B","C","D","E","F","G","H","I","J","K","L","M",
    "N","O","P","Q","R","S","T","U","V","W","X","Y","Z">>

LowerChars ==
  <<"a","b","c","d","e","f","g","h","i","j","k","l","m",
    "n","o","p","q","r","s","t","u","v","w","x","y","z">>

DigitChars == <<"0","1","2","3","4","5","6","7","8","9">>

Range(s) == {s[i] : i \in 1..Len(s)}

Letters == Range(UpperChars) \cup Range(LowerChars)

Digits == Range(DigitChars)

\* \w of the re module
WordChars == Letters \cup Digits \cup {"_"}

SetMin(S) == CHOOSE x \in S : \A y \in S : x <= y

SetMax(S) == CHOOSE x \in S : \A y \in S : y <= x

Min2(a, b) == IF a <= b THEN a ELSE b

\* str.lower()
LowerChar(c) ==
  IF \E i \in 1..26 : UpperChars[i] = c
  THEN LowerChars[CHOOSE i \in 1..26 : UpperChars[i] = c]
  ELSE c

Lower(s) == [i \in 1..Len(s) |-> LowerChar(s[i])]

\* the `in` operator on strings
IsSub(t, s) == \E i \in 0..(Len(s) - Len(t)) : SubSeq(s, i + 1, i + Len(t)) = t

\* str.startswith
StartsWith(s, p) == Len(s) >= Len(p) /\ SubSeq(s, 1, Len(p)) = p

\* str.endswith
EndsWith(s, p) == Len(s) >= Len(p) /\ SubSeq(s, Len(s) - Len(p) + 1, Len(s)) = p

\* str.strip(chars)
StripChars(s, cs) ==
  LET keep == {i \in 1..Len(s) : s[i] \notin cs}
  IN IF keep = {} THEN <<>> ELSE SubSeq(s, SetMin(keep), SetMax(keep))

\* str.strip()
Strip(s) == StripChars(s, Whitespace)

\* the elements of a finite set of numbers in ascending order
SortedNats(S) ==
  [k \in 1..Cardinality(S) |-> CHOOSE x \in S : Cardinality({y \in S : y < x}) = k - 1]

\* the first place from i on where t stands in s, or 0
FirstAt(s, t, i) ==
  IF \E j \in i..(Len(s) - Len(t) + 1) : SubSeq(s, j, j + Len(t) - 1) = t
  THEN SetMin({j \in i..(Len(s) - Len(t) + 1) : SubSeq(s, j, j + Len(t) - 1) = t})
  ELSE 0

\* str.count(t): occurrences counted left to right without overlap
RECURSIVE CountFrom(_, _, _)
CountAfter(s, t, j) == IF j = 0 THEN 0 ELSE 1 + CountFrom(s, t, j + Len(t))

CountFrom(s, t, i) == CountAfter(s, t, FirstAt(s, t, i))

Count(s, t) == IF t = <<>> THEN Len(s) + 1 ELSE CountFrom(s, t, 1)

\* the maximal runs of the characters of s that are marked in keep
RunsBetween(s, starts, ends) == [k \in 1..Len(starts) |-> SubSeq(s, starts[k], ends[k])]

Runs(s, keep) ==
  RunsBetween(s,
    SortedNats({i \in 1..Len(s) : keep[i] /\ (i = 1 \/ ~keep[i - 1])}),
    SortedNats({i \in 1..Len(s) : keep[i] /\ (i = Len(s) \/ ~keep[i + 1])}))

\* str.split(): split on runs of whitespace, no empty terms
SplitWS(s) == Runs(s, [i \in 1..Len(s) |-> s[i] \notin Whitespace])

\* the pieces of s between the places at
SplitAt(s, at) ==
  [k \in 1..(Len(at) + 1) |->
     SubSeq(s, IF k = 1 THEN 1 ELSE at[k - 1] + 1,
               IF k > Len(at) THEN Len(s) ELSE at[k] - 1)]

\* str.split(c): always at least one piece
SplitOn(s, c) == SplitAt(s, SortedNats({i \in 1..Len(s) : s[i] = c}))

\* c.join(parts)
RECURSIVE JoinWith(_, _)
JoinWith(parts, c) ==
  IF parts = <<>> THEN <<>>
  ELSE IF Len(parts) = 1 THEN parts[1]
       ELSE parts[1] \o <<c>> \o JoinWith(Tail(parts), c)

\* the lines of s that end at the places at, and the rest of s when it is not empty
LinesAt(s, at) ==
  [k \in 1..(Len(at) + (IF (IF at = <<>> THEN 0 ELSE at[Len(at)]) < Len(s) THEN 1 ELSE 0))
     |-> SubSeq(s, IF k = 1 THEN 1 ELSE at[k - 1] + 1,
                   IF k > Len(at) THEN Len(s) ELSE at[k])]

\* iteration of a text file: the lines with their terminators
FileLines(s) == LinesAt(s, SortedNats({i \in 1..Len(s) : s[i] = NL}))

(***************************************************************************)
(* Dates                                                                   *)
(***************************************************************************)
IsLeap(y) == (y % 4 = 0) /\ ((y % 100 # 0) \/ (y % 400 = 0))

DaysInMonth(y, m) ==
  IF m = 2 THEN (IF IsLeap(y) THEN 29 ELSE 28)
  ELSE IF m \in {4, 6, 9, 11} THEN 30 ELSE 31

RECURSIVE DaysBeforeMonth(_, _)
DaysBeforeMonth(y, m) ==
  IF m <= 1 THEN 0 ELSE DaysBeforeMonth(y, m - 1) + DaysInMonth(y, m - 1)

DaysBeforeYear(y) ==
  365 * (y - 1) + ((y - 1) \div 4) - ((y - 1) \div 100) + ((y - 1) \div 400)

\* date(y, m, d).toordinal()
Ordinal(y, m, d) == DaysBeforeYear(y) + DaysBeforeMonth(y, m) + d

DigitVal(c) == (CHOOSE i \in 1..10 : DigitChars[i] = c) - 1

RECURSIVE NumVal(_)
NumVal(s) ==
  IF s = <<>> THEN 0
  ELSE 10 * NumVal(SubSeq(s, 1, Len(s) - 1)) + DigitVal(s[Len(s)])

AllDigits(s) == \A i \in 1..Len(s) : s[i] \in Digits

NoDate == -1

\* the day number of year y, month m, day d, or NoDate when there is no such day
DayNumber(y, m, d) ==
  IF y >= 1 /\ m \in 1..12 /\ d >= 1 /\ d <= DaysInMonth(y, m)
  THEN Ordinal(y, m, d) ELSE NoDate

\* datetime.fromisoformat on a "<year>-<month>-01" string: the day number, or
\* NoDate where it raises ValueError
FromIsoFormat(s) ==
  IF /\ Len(s) = 10
     /\ s[5] = "-" /\ s[8] = "-"
     /\ AllDigits(SubSeq(s, 1, 4)) /\ AllDigits(SubSeq(s, 6, 7))
     /\ AllDigits(SubSeq(s, 9, 10))
  THEN DayNumber(NumVal(SubSeq(s, 1, 4)), NumVal(SubSeq(s, 6, 7)),
                 NumVal(SubSeq(s, 9, 10)))
  ELSE NoDate

Pad2(n) == <<DigitChars[((n \div 10) % 10) + 1], DigitChars[(n % 10) + 1]>>

Pad4(n) == Pad2(n \div 100) \o Pad2(n % 100)

\* strftime("%Y-%m-%d") of a clock value [y, m, d]
FormatDate(t) == Pad4(t.y) \o <<"-">> \o Pad2(t.m) \o <<"-">> \o Pad2(t.d)

\* the day number of a clock value
Today(t) == Ordinal(t.y, t.m, t.d)

(***************************************************************************)
(* Paths: a document is NOTES_DIR/<dir>/<name>                             *)
(***************************************************************************)
\* the characters of directory and file names, in code point order
AsciiOrder ==
  <<"-", ".">> \o DigitChars \o UpperChars \o <<"_">> \o LowerChars

Ord(c) == CHOOSE i \in 1..Len(AsciiOrder) : AsciiOrder[i] = c

\* a < b on str
RECURSIVE LexLess(_, _)
LexLess(a, b) ==
  IF b = <<>> THEN FALSE
  ELSE IF a = <<>> THEN TRUE
       ELSE IF a[1] = b[1] THEN LexLess(Tail(a), Tail(b))
            ELSE Ord(a[1]) < Ord(b[1])

\* sorted(S) for a set of strings
RECURSIVE SortedStrings(_)
SortedStrings(S) ==
  IF S = {} THEN <<>>
  ELSE LET m == CHOOSE x \in S : \A y \in S \ {x} : LexLess(x, y)
       IN <<m>> \o SortedStrings(S \ {m})

Reverse(s) == [i \in 1..Len(s) |-> s[Len(s) + 1 - i]]

RECURSIVE Flatten(_)
Flatten(ss) == IF ss = <<>> THEN <<>> ELSE ss[1] \o Flatten(Tail(ss))

MdSuffix == <<".", "m", "d">>

\* the directories the two scans visit: sorted(NOTES_DIR.glob('*/'), reverse=True)
\* without the names that start with a dot
YearDirs(d) ==
  Reverse(SortedStrings({n \in {f.dir : f \in DOMAIN d} : ~StartsWith(n, <<".">>)}))

InDir(dir, names) == [i \in 1..Len(names) |-> [dir |-> dir, name |-> names[i]]]

\* sorted(year_dir.glob('*.md'))
MdFiles(d, dir) ==
  InDir(dir, SortedStrings({n \in {f.name : f \in {g \in DOMAIN d : g.dir = dir}} :
                              EndsWith(n, MdSuffix)}))

FilesDescending(d, ys) == Flatten([i \in 1..Len(ys) |-> Reverse(MdFiles(d, ys[i]))])

FilesAscending(d, ys) == Flatten([i \in 1..Len(ys) |-> MdFiles(d, ys[i])])

\* the documents in the order search_notes reads them
SearchOrder(d) == FilesDescending(d, YearDirs(d))

\* the documents in the order update_index reads them
IndexOrder(d) == FilesAscending(d, YearDirs(d))

extract_date_from_file(f) ==
  LET year == f.dir
      month == IF "-" \in Range(f.name) THEN SplitOn(f.name, "-")[1]
               ELSE <<"0", "1">>
  IN year \o <<"-">> \o month \o <<"-", "0", "1">>

(***************************************************************************)
(* Entry extraction                                                        *)
(***************************************************************************)
HeadingMark == <<"#", " ">>

SubHeadingMark == <<"#", "#", " ">>

\* line.startswith('# ') and not line.startswith('## ')
IsTopHeading(line) == StartsWith(line, HeadingMark) /\ ~StartsWith(line, SubHeadingMark)

NotesPrefix == <<"N", "o", "t", "e", "s", " ", "-", " ">>

\* re.match(r'^Notes - \w+ \d{4}$', heading)
IsFileHeader(h) ==
  LET n == Len(h)
  IN /\ n >= Len(NotesPrefix) + 6
     /\ SubSeq(h, 1, Len(NotesPrefix)) = NotesPrefix
     /\ \A i \in (Len(NotesPrefix) + 1)..(n - 5) : h[i] \in WordChars
     /\ h[n - 4] = " "
     /\ AllDigits(SubSeq(h, n - 3, n))

\* scripts/notes_manager.py: the loop body of extract_entries; cur holds the
\* entry in progress, or is empty
RECURSIVE ExtractFrom(_, _, _, _)
ExtractFrom(f, lines, i, cur) ==
  IF i > Len(lines)
  THEN (IF cur # <<>> /\ ~IsFileHeader(cur[1].heading) THEN cur ELSE <<>>)
  ELSE IF IsTopHeading(lines[i])
       THEN (IF cur # <<>> /\ ~IsFileHeader(cur[1].heading) THEN cur ELSE <<>>)
            \o ExtractFrom(f, lines, i + 1,
                 <<[heading |-> StripChars(lines[i], {"#", " ", NL}),
                    content |-> <<>>,
                    file |-> f,
                    date |-> extract_date_from_file(f)]>>)
       ELSE IF cur # <<>>
            THEN ExtractFrom(f, lines, i + 1,
                   <<[cur[1] EXCEPT !.content = cur[1].content \o lines[i]]>>)
            ELSE ExtractFrom(f, lines, i + 1, cur)

extract_entries(f, text) == ExtractFrom(f, FileLines(text), 1, <<>>)

\* hooks/notes_manager.py: the same loop without the file header filter
RECURSIVE HooksExtractFrom(_, _, _, _)
HooksExtractFrom(f, lines, i, cur) ==
  IF i > Len(lines) THEN cur
  ELSE IF IsTopHeading(lines[i])
       THEN cur \o HooksExtractFrom(f, lines, i + 1,
                 <<[heading |-> StripChars(lines[i], {"#", " ", NL}),
                    content |-> <<>>,
                    file |-> f,
                    date |-> extract_date_from_file(f)]>>)
       ELSE IF cur # <<>>
            THEN HooksExtractFrom(f, lines, i + 1,
                   <<[cur[1] EXCEPT !.content = cur[1].content \o lines[i]]>>)
            ELSE HooksExtractFrom(f, lines, i + 1, cur)

hooks_extract_entries(f, text) == HooksExtractFrom(f, FileLines(text), 1, <<>>)

\* the entries of the documents fs, document after document
EntriesOf(d, fs) == Flatten([i \in 1..Len(fs) |-> extract_entries(fs[i], d[fs[i]])])

\* every entry of the archive in the order search_notes scores them
AllEntries(d) == EntriesOf(d, SearchOrder(d))

(***************************************************************************)
(* Relevance scoring                                                       *)
(***************************************************************************)
RECURSIVE SumSeq(_)
SumSeq(ns) == IF ns = <<>> THEN 0 ELSE ns[1] + SumSeq(Tail(ns))

\* scripts, lines 172-177: the boost for an entry that is days_old days old
AgeBoost(days_old) ==
  IF days_old < 30 THEN 10
  ELSE IF days_old < 90 THEN 5
       ELSE IF days_old < 180 THEN 2 ELSE 0

\* scripts, lines 169-179: day is the parsed date, NoDate when parsing raised
BoostOf(day, today) == IF day = NoDate THEN 0 ELSE AgeBoost(today - day)

\* t is the clock value datetime.now() returns
RecencyBoost(date, t) == BoostOf(FromIsoFormat(date), Today(t))

\* scripts, lines 147-159
HeadingScore(heading_lower, query, query_terms) ==
  IF IsSub(query, heading_lower) THEN 500
  ELSE IF \A i \in 1..Len(query_terms) : IsSub(query_terms[i], heading_lower) THEN 100
       ELSE SumSeq([i \in 1..Len(query_terms) |->
              IF IsSub(query_terms[i], heading_lower) THEN 20 ELSE 0])

\* scripts, lines 162-164
ContentScore(content_lower, query_terms) ==
  SumSeq([i \in 1..Len(query_terms) |-> Count(content_lower, query_terms[i]) * 5])

\* scripts/notes_manager.py
calculate_relevance(entry, query, query_terms, t) ==
  HeadingScore(Lower(entry.heading), query, query_terms)
  + Min2(ContentScore(Lower(entry.content), query_terms), 50)
  + RecencyBoost(entry.date, t)

\* hooks, lines 153-158
HooksAgeBoost(days_old) ==
  IF days_old < 30 THEN 20
  ELSE IF days_old < 90 THEN 10
       ELSE IF days_old < 180 THEN 5 ELSE 0

\* hooks, lines 150-160
HooksBoostOf(day, today) == IF day = NoDate THEN 0 ELSE HooksAgeBoost(today - day)

\* hooks, lines 132-143
HooksHeadingScore(heading_lower, query, query_terms) ==
  (IF IsSub(query, heading_lower) THEN 100 ELSE 0)
  + (IF \A i \in 1..Len(query_terms) : IsSub(query_terms[i], heading_lower)
     THEN 50 ELSE 0)
  + SumSeq([i \in 1..Len(query_terms) |->
      IF IsSub(query_terms[i], heading_lower) THEN 20 ELSE 0])

\* hooks/notes_manager.py
hooks_calculate_relevance(entry, query, query_terms, t) ==
  HooksHeadingScore(Lower(entry.heading), query, query_terms)
  + ContentScore(Lower(entry.content), query_terms)
  + HooksBoostOf(FromIsoFormat(entry.date), Today(t))

(***************************************************************************)
(* Search                                                                  *)
(***************************************************************************)
Ellipsis == <<".", ".", ".">>

\* entry['content'][:300] + '...' if len(entry['content']) > 300 else entry['content']
Preview300(content) ==
  IF Len(content) > 300 THEN SubSeq(content, 1, 300) \o Ellipsis ELSE content

\* a sort step that puts r in front of the results of its own relevance
InsertBeforeEqual(sorted, r) ==
  LET k == Cardinality({i \in 1..Len(sorted) : sorted[i].relevance > r.relevance})
  IN SubSeq(sorted, 1, k) \o <<r>> \o SubSeq(sorted, k + 1, Len(sorted))

\* one step of the stable descending sort: r goes behind every result whose
\* relevance is at least its own
InsertByRelevance(sorted, r) ==
  LET k == Cardinality({i \in 1..Len(sorted) : sorted[i].relevance >= r.relevance})
  IN SubSeq(sorted, 1, k) \o <<r>> \o SubSeq(sorted, k + 1, Len(sorted))

\* results.sort(key=lambda x: x['relevance'], reverse=True)
RECURSIVE SortFrom(_, _, _)
SortFrom(rs, i, sorted) ==
  IF i > Len(rs) THEN sorted
  ELSE SortFrom(rs, i + 1, InsertByRelevance(sorted, rs[i]))

SortByRelevance(rs) == SortFrom(rs, 1, <<>>)

\* results[:max_results]
Slice(rs, max_results) ==
  IF max_results >= 0 THEN SubSeq(rs, 1, Min2(max_results, Len(rs)))
  ELSE SubSeq(rs, 1, Len(rs) + max_results)

\* lines 128-135: the result of one entry, or nothing when its relevance is 0
ResultOf(entry, relevance) ==
  IF relevance > 0
  THEN <<[heading |-> entry.heading,
          content |-> Preview300(entry.content),
          file |-> entry.file,
          date |-> entry.date,
          relevance |-> relevance]>>
  ELSE <<>>

\* lines 126-135
ScoreAll(es, query_lower, query_terms, t) ==
  Flatten([i \in 1..Len(es) |->
    ResultOf(es[i], calculate_relevance(es[i], query_lower, query_terms, t))])

\* lines 118-119
MatchesLower(d, t, query_lower) ==
  ScoreAll(AllEntries(d), query_lower, SplitWS(query_lower), t)

\* lines 117-135: the results in scan order, before the sort
Matches(d, t, query) == MatchesLower(d, t, Lower(query))

\* search_notes without the sort of line 138
search_unsorted(d, t, query, max_results) == Slice(Matches(d, t, query), max_results)

search_notes(d, t, query, max_results) ==
  Slice(SortByRelevance(Matches(d, t, query)), max_results)

(***************************************************************************)
(* Index rebuild                                                           *)
(***************************************************************************)
LetterRuns(runs) ==
  {runs[i] : i \in {j \in 1..Len(runs) :
                      Len(runs[j]) >= 3 /\ Range(runs[j]) \subseteq Letters}}

\* set(re.findall(r'\b[a-zA-Z]{3,}\b', text))
WordSet(text) == LetterRuns(Runs(text, [i \in 1..Len(text) |-> text[i] \in WordChars]))

common_words ==
  { <<"t","h","e">>, <<"a","n","d">>, <<"f","o","r">>, <<"t","h","a","t">>,
    <<"w","i","t","h">>, <<"t","h","i","s">>, <<"f","r","o","m">>,
    <<"h","a","v","e">>, <<"w","a","s">>, <<"w","e","r","e">> }

\* The iteration order of a set of str depends on the hash seed of the process.
\* Two of the orders a process can produce stand for all of them.
HashOrders == {"ascending", "descending"}

SetOrder(S, order) ==
  IF order = "ascending" THEN SortedStrings(S) ELSE Reverse(SortedStrings(S))

\* xs[:n]
Take(xs, n) == SubSeq(xs, 1, Min2(n, Len(xs)))

IsCommon(w) == Lower(w) \in common_words

\* lines 278-282 and 294
Keywords(entry, order) ==
  Take(Take(SelectSeq(SetOrder(WordSet(entry.heading \o <<" ">> \o entry.content),
                               order),
                      LAMBDA w : ~IsCommon(w)), 15), 10)

CategorySep == <<" ", "-", " ">>

NoCategory == <<"N", "o", "n", "e">>

\* lines 285-287; None is written NoCategory
Category(heading) ==
  IF IsSub(CategorySep, heading)
  THEN [has |-> TRUE,
        name |-> Strip(SubSeq(heading, 1,
                   SetMin({i \in 0..(Len(heading) - 3) :
                             SubSeq(heading, i + 1, i + 3) = CategorySep})))]
  ELSE [has |-> FALSE, name |-> NoCategory]

\* lines 289-296
IndexRecord(entry, order) ==
  [heading |-> entry.heading,
   file |-> entry.file,
   date |-> entry.date,
   category |-> Category(entry.heading),
   keywords |-> Keywords(entry, order),
   content_preview |-> Strip(Take(entry.content, 100))]

\* lines 258-299: the index object for the files fs and their entries es
IndexOf(fs, es, t, order) ==
  [exists |-> TRUE,
   entries |-> [i \in 1..Len(es) |-> IndexRecord(es[i], order)],
   last_updated |-> t,
   total_files |-> Len(fs),
   total_entries |-> Len(es)]

IndexOfFiles(d, fs, t, order) == IndexOf(fs, EntriesOf(d, fs), t, order)

\* lines 258-299: the index object update_index builds
BuildIndex(d, t, order) == IndexOfFiles(d, IndexOrder(d), t, order)

\* no .index.json
NoIndex ==
  [exists |-> FALSE, entries |-> <<>>, last_updated |-> [y |-> 1, m |-> 1, d |-> 1],
   total_files |-> 0, total_entries |-> 0]

\* update_index: the index file afterwards and the response; the index file
\* keeps its old content when it cannot be opened for writing
IndexWritten(built) ==
  [index |-> built,
   out |-> [status |-> "success", total_files |-> built.total_files,
            total_entries |-> built.total_entries]]

\* a rebuild that keeps the records of the snapshot it finds
update_index_merging(d, idx, t, order, io) ==
  IF io = "index_fails"
  THEN [index |-> idx, out |-> [status |-> "error", total_files |-> 0, total_entries |-> 0]]
  ELSE IndexWritten([BuildIndex(d, t, order) EXCEPT
                       !.entries = idx.entries \o BuildIndex(d, t, order).entries])

update_index(d, idx, t, order, io) ==
  IF io = "index_fails"
  THEN [index |-> idx, out |-> [status |-> "error", total_files |-> 0, total_entries |-> 0]]
  ELSE IndexWritten(BuildIndex(d, t, order))

(***************************************************************************)
(* Append to entry                                                         *)
(***************************************************************************)
UpdateOpen == <<"*", "*", "U", "p", "d", "a", "t", "e", " ", "(">>

UpdateClose == <<")", ":", "*", "*", " ">>

\* line 216: f"\n**Update ({timestamp}):** {new_content.strip()}\n"
UpdateText(t, new_content) ==
  <<NL>> \o UpdateOpen \o FormatDate(t) \o UpdateClose \o Strip(new_content) \o <<NL>>

\* new_lines.insert(-1, x)
InsertBeforeLast(xs, x) ==
  IF xs = <<>> THEN <<x>>
  ELSE SubSeq(xs, 1, Len(xs) - 1) \o <<x>> \o <<xs[Len(xs)]>>

\* lines 224-237: the loop over the lines and the append after it
RECURSIVE RewriteFrom(_, _, _, _, _, _, _)
RewriteFrom(lines, i, target_line, update_text, new_lines, in_target, inserted) ==
  IF i > Len(lines)
  THEN (IF in_target /\ ~inserted THEN Append(new_lines, update_text) ELSE new_lines)
  ELSE LET line == lines[i]
           appended == Append(new_lines, line)
       IN IF Strip(line) = target_line
          THEN RewriteFrom(lines, i + 1, target_line, update_text,
                           appended, TRUE, inserted)
          ELSE IF in_target /\ IsTopHeading(line)
               THEN RewriteFrom(lines, i + 1, target_line, update_text,
                                InsertBeforeLast(appended, update_text), FALSE, TRUE)
               ELSE RewriteFrom(lines, i + 1, target_line, update_text,
                                appended, in_target, inserted)

\* lines 219-242: the text written back for the text read
Rewritten(content, heading, update_text) ==
  JoinWith(RewriteFrom(SplitOn(content, NL), 1, HeadingMark \o heading,
                       update_text, <<>>, FALSE, FALSE), NL)

\* line 195: the confidence test on the top result
IsWeak(results) == results[1].relevance < 50

\* line 199
Alternatives(results) ==
  [i \in 1..Min2(3, Len(results)) |->
     [heading |-> results[i].heading, relevance |-> results[i].relevance]]

\* line 253
OtherHeadings(results) ==
  IF Len(results) > 1
  THEN [i \in 1..(Min2(3, Len(results)) - 1) |-> results[i + 1].heading]
  ELSE <<>>

NoResult == [heading |-> <<>>, content |-> <<>>, file |-> [dir |-> <<>>, name |-> <<>>],
             date |-> <<>>, relevance |-> 0]

IoModes == {"ok", "read_fails", "open_fails", "write_fails", "index_fails"}

\* what a call of append_to_entry leaves: its response and the files
Outcome(status, d, idx, results, target, alternatives) ==
  [status |-> status, docs |-> d, index |-> idx, results |-> results,
   target |-> target, alternatives |-> alternatives]

\* lines 246-254: the document is written, the index is rebuilt
Succeed(written, idx, t, results, order, io) ==
  Outcome("success", written, update_index(written, idx, t, order, io).index,
          results, results[1], OtherHeadings(results))

\* Mutate with update_index() called on the failures as well
MutateRebuilding(target, d, idx, t, results, new_content, order, io) ==
  IF io = "read_fails" \/ io = "open_fails"
  THEN Outcome("error", d, update_index(d, idx, t, order, "ok").index, results, target, <<>>)
  ELSE IF io = "write_fails"
       THEN Outcome("error", [d EXCEPT ![target.file] = <<>>],
                    update_index([d EXCEPT ![target.file] = <<>>], idx, t, order, "ok").index,
                    results, target, <<>>)
       ELSE Succeed([d EXCEPT ![target.file] =
                       Rewritten(d[target.file], target.heading,
                                 UpdateText(t, new_content))],
                    idx, t, results, order, io)

\* lines 207-244 for the target found.  io names the step that fails: reading
\* the target, opening it for writing (nothing changes), writing it (open(..., 'w')
\* has emptied the file), or writing the index
Mutate(target, d, idx, t, results, new_content, order, io) ==
  IF io = "read_fails" \/ io = "open_fails"
  THEN Outcome("error", d, idx, results, target, <<>>)
  ELSE IF io = "write_fails"
       THEN Outcome("error", [d EXCEPT ![target.file] = <<>>], idx, results, target, <<>>)
       ELSE Succeed([d EXCEPT ![target.file] =
                       Rewritten(d[target.file], target.heading,
                                 UpdateText(t, new_content))],
                    idx, t, results, order, io)

\* Decide with update_index() called on the two early returns as well
DecideIndexing(results, d, idx, t, new_content, order, io) ==
  IF results = <<>>
  THEN Outcome("not_found", d, update_index(d, idx, t, order, io).index,
               results, NoResult, <<>>)
  ELSE IF IsWeak(results)
       THEN Outcome("ambiguous", d, update_index(d, idx, t, order, io).index,
                    results, NoResult, Alternatives(results))
       ELSE Mutate(results[1], d, idx, t, results, new_content, order, io)

\* Decide without the confidence test, as in hooks/notes_manager.py
DecideUngated(results, d, idx, t, new_content, order, io) ==
  IF results = <<>>
  THEN Outcome("not_found", d, idx, results, NoResult, <<>>)
  ELSE Mutate(results[1], d, idx, t, results, new_content, order, io)

\* lines 187-204: the three ways on from the search results
Decide(results, d, idx, t, new_content, order, io) ==
  IF results = <<>>
  THEN Outcome("not_found", d, idx, results, NoResult, <<>>)
  ELSE IF IsWeak(results)
       THEN Outcome("ambiguous", d, idx, results, NoResult, Alternatives(results))
       ELSE Mutate(results[1], d, idx, t, results, new_content, order, io)

\* append_to_entry as one call
append_to_entry(d, idx, t, search_term, new_content, order, io) ==
  Decide(search_notes(d, t, search_term, 5), d, idx, t, new_content, order, io)

(***************************************************************************)
(* The archives and the inputs of the commands                             *)
(***************************************************************************)
FileNov26 == [dir |-> <<"2", "0", "2", "6">>, name |-> <<"1", "1", "-", "N", "o", "v", "e", "m", "b", "e", "r", ".", "m", "d">>]

FileMar25 == [dir |-> <<"2", "0", "2", "5">>, name |-> <<"0", "3", "-", "M", "a", "r", "c", "h", ".", "m", "d">>]

FileIdeas == [dir |-> <<"m", "i", "s", "c">>, name |-> <<"i", "d", "e", "a", "s", ".", "m", "d">>]

\* two entries, the last line terminated
DocPlain ==
  <<"#", " ", "x", NL, "a", NL, "#", " ", "y", NL, "b", NL>>

\* the heading x twice, the second entry right after the first
DocDupAdjacent ==
  <<"#", " ", "x", NL, "a", NL, "#", " ", "x", NL, "b", NL, "#", " ", "z", NL>>

\* the heading x twice, another entry between the two
DocDupApart ==
  <<"#", " ", "x", NL, "a", NL, "#", " ", "y", NL, "#", " ", "x", NL, "b", NL, "#", " ", "z", NL>>

\* the entry "x y" last, the last line not terminated
DocLast ==
  <<"#", " ", "y", NL, "#", " ", "x", " ", "y", NL, "a">>

\* the file header add_note writes, then one entry
DocTitled ==
  <<"#", " ", "N", "o", "t", "e", "s", " ", "-", " ", "N", "o", "v", "e", "m", "b", "e", "r", " ", "2", "0", "2", "6", NL, NL, "#", " ", "x", NL, "a", NL>>

\* a heading line with two spaces after the #
DocSpaced ==
  <<"#", " ", " ", "x", NL, "a", NL, "#", " ", "y", NL>>

NoDocs == [f \in {} |-> <<>>]

Archives ==
  { NoDocs,
    (FileNov26 :> DocPlain),
    (FileNov26 :> DocDupAdjacent),
    (FileNov26 :> DocDupApart),
    (FileMar25 :> DocPlain),
    (FileNov26 :> DocTitled) @@ (FileMar25 :> DocLast),
    (FileNov26 :> DocSpaced) @@ (FileIdeas :> DocLast) }

Queries == { <<"x">>, <<"x", " ", "y">>, <<"q">>, <<>> }

\* one new content, with white space around it and a query term in it
NewContents == { <<" ", "x", NL>> }

StartClock == [y |-> 2026, m |-> 11, d |-> 4]

MaxAppends == 2

MaxResults == 3

(***************************************************************************)
(* One invocation of the script at a time: a command computes its result,  *)
(* Exit prints it and ends the process.  resp is the result of the running *)
(* invocation, pre the files as they were when it started, hist the        *)
(* successful appends so far.                                              *)
(***************************************************************************)
Procs == {1, 2}

NoResp ==
  [op |-> "none", query |-> <<>>, content |-> <<>>, max |-> 0,
   out |-> [status |-> "none"]]

\* the locals of one invocation of append_to_entry: text is the document as
\* read, buf the text to write, turn the rank of its write among the writes
NoLoc ==
  [query |-> <<>>, content |-> <<>>, results |-> <<>>, target |-> NoResult,
   text |-> <<>>, buf |-> <<>>, turn |-> 0, status |-> "none"]

NoScore == [phase |-> "off"]

Snapshot == [docs |-> docs, index |-> index, now |-> now]

Init ==
  /\ docs \in Archives
  /\ index = NoIndex
  /\ now = StartClock
  /\ resp = NoResp
  /\ pre = [docs |-> docs, index |-> NoIndex, now |-> StartClock]
  /\ hist = <<>>
  /\ pc = [p \in Procs |-> "idle"]
  /\ loc = [p \in Procs |-> NoLoc]
  /\ sc = NoScore

\* the place, among the entries of its document, of the entry a result stands
\* for: the first entry with the heading and the content of the result
PlaceOf(es, result) ==
  SetMin({i \in 1..Len(es) : /\ es[i].heading = result.heading
                             /\ Preview300(es[i].content) = result.content})

\* what an append that returned success leaves in hist: the entry it resolved
\* to, the update block and the document as written
Done(r, d, t, new_content) ==
  [heading |-> r.target.heading, file |-> r.target.file,
   place |-> PlaceOf(extract_entries(r.target.file, d[r.target.file]), r.target),
   block |-> UpdateText(t, new_content),
   text |-> r.docs[r.target.file]]

\* the files and the response after a call of append_to_entry that returned r
Appended(r, search_term, new_content) ==
  /\ docs' = r.docs
  /\ index' = r.index
  /\ resp' = [op |-> "append", query |-> search_term, content |-> new_content,
              max |-> 5,
              out |-> [status |-> r.status, results |-> r.results,
                       target |-> r.target, alternatives |-> r.alternatives]]
  /\ hist' = IF r.status = "success"
             THEN Append(hist, Done(r, docs, now, new_content)) ELSE hist

\* main, lines 565-569: command 'append'
AppendCmd(search_term, new_content, order, io) ==
  /\ resp.op = "none"
  /\ Len(hist) < MaxAppends
  /\ io # "ok" => order = "ascending"
  /\ Appended(append_to_entry(docs, index, now, search_term, new_content, order, io),
              search_term, new_content)
  /\ pre' = Snapshot
  /\ UNCHANGED <<now, pc, loc, sc>>

\* main, lines 560-564: command 'search'
SearchCmd(query, max_results) ==
  /\ resp.op = "none"
  /\ resp' = [op |-> "search", query |-> query, content |-> <<>>, max |-> max_results,
              out |-> [status |-> "ok",
                       results |-> search_notes(docs, now, query, max_results)]]
  /\ pre' = Snapshot
  /\ UNCHANGED <<docs, index, now, hist, pc, loc, sc>>

Reindexed(r) ==
  /\ index' = r.index
  /\ resp' = [op |-> "reindex", query |-> <<>>, content |-> <<>>, max |-> 0,
              out |-> r.out]

\* main, lines 570-571: command 'reindex'
ReindexCmd(order, io) ==
  /\ resp.op = "none"
  /\ Reindexed(update_index(docs, index, now, order, io))
  /\ pre' = Snapshot
  /\ UNCHANGED <<docs, now, hist, pc, loc, sc>>

\* main, lines 599-601: the result is printed and the process ends
Exit ==
  /\ resp.op # "none"
  /\ resp' = NoResp
  /\ pre' = Snapshot
  /\ UNCHANGED <<docs, index, now, hist, pc, loc, sc>>

Next ==
  \/ \E q \in Queries, c \in NewContents, o \in HashOrders, io \in IoModes :
       AppendCmd(q, c, o, io)
  \/ \E q \in Queries, k \in 0..MaxResults : SearchCmd(q, k)
  \/ \E o \in HashOrders, io \in {"ok", "index_fails"} : ReindexCmd(o, io)
  \/ Exit

Spec == Init /\ [][Next]_vars

(***************************************************************************)
(* Scoring on its own: two entries scored for one query in one search, by  *)
(* calculate_relevance of scripts/ or of hooks/.                           *)
(***************************************************************************)
FileSep26 == [dir |-> <<"2", "0", "2", "6">>, name |-> <<"0", "9", "-", "S", "e", "p", "t", "e", "m", "b", "e", "r", ".", "m", "d">>]

FileJun26 == [dir |-> <<"2", "0", "2", "6">>, name |-> <<"0", "6", "-", "J", "u", "n", "e", ".", "m", "d">>]

MaxTerms == 23

\* a query of MaxTerms terms: x x ... x y
LongQuery ==
  [i \in 1..(2 * MaxTerms - 1) |->
     IF i = 2 * MaxTerms - 1 THEN "y" ELSE IF i % 2 = 1 THEN "x" ELSE " "]

ScoreQueries == { <<"x">>, <<"X", " ", "y">>, LongQuery }

ScoreHeadings == { <<"x">>, <<"Y", " ", "x">>, LongQuery, <<"z">> }

MaxHits == 10

ScoreContents == { <<>>, <<"y", NL>>, [i \in 1..MaxHits |-> "x"] }

ScoreFiles == {FileNov26, FileSep26, FileJun26, FileMar25, FileIdeas}

ScoreEntries ==
  { [heading |-> h, content |-> c, file |-> f, date |-> extract_date_from_file(f)] :
      h \in ScoreHeadings, c \in ScoreContents, f \in ScoreFiles }

InitScore ==
  /\ docs = NoDocs
  /\ index = NoIndex
  /\ now = StartClock
  /\ resp = NoResp
  /\ pre = [docs |-> NoDocs, index |-> NoIndex, now |-> StartClock]
  /\ hist = <<>>
  /\ pc = [p \in Procs |-> "idle"]
  /\ loc = [p \in Procs |-> NoLoc]
  /\ sc \in [phase : {"input"}, query : ScoreQueries, a : ScoreEntries,
             b : ScoreEntries]

Implementations == {"scripts", "hooks"}

RelevanceBy(impl, entry, query_lower, query_terms, t) ==
  IF impl = "scripts"
  THEN calculate_relevance(entry, query_lower, query_terms, t)
  ELSE hooks_calculate_relevance(entry, query_lower, query_terms, t)

Scored(impl, query, query_lower, query_terms, a, b, t) ==
  [phase |-> "scored", impl |-> impl, query |-> query, a |-> a, b |-> b,
   score_a |-> RelevanceBy(impl, a, query_lower, query_terms, t),
   score_b |-> RelevanceBy(impl, b, query_lower, query_terms, t)]

\* search_notes, lines 117-128: query.lower(), query.split(), one score per entry
ScorePair(impl) ==
  /\ sc.phase = "input"
  /\ sc' = Scored(impl, sc.query, Lower(sc.query), SplitWS(Lower(sc.query)),
                  sc.a, sc.b, now)
  /\ UNCHANGED <<docs, index, now, resp, pre, hist, pc, loc>>

NextScore == \E impl \in Implementations : ScorePair(impl)

SpecScore == InitScore /\ [][NextScore]_vars

(***************************************************************************)
(* Two invocations of 'append' at once, each a process of its own.  No     *)
(* step takes a lock: a step is one access to the files.                   *)
(***************************************************************************)
RaceArchives == { (FileNov26 :> DocPlain), (FileNov26 :> DocLast) }

RaceQueries == { <<"x">>, <<"q">> }

RaceContents == { <<"N">>, <<"l", "o", "n", "g", "e", "r">> }

InitRace ==
  /\ docs \in RaceArchives
  /\ index = NoIndex
  /\ now = StartClock
  /\ resp = NoResp
  /\ pre = [docs |-> docs, index |-> NoIndex, now |-> StartClock]
  /\ hist = <<>>
  /\ pc = [p \in Procs |-> "idle"]
  /\ loc = [p \in Procs |-> NoLoc]
  /\ sc = NoScore

\* lines 185-204: the locals after the search
Searched(search_term, new_content, results) ==
  [NoLoc EXCEPT !.query = search_term, !.content = new_content,
                !.results = results,
                !.target = IF results = <<>> \/ IsWeak(results)
                           THEN NoResult ELSE results[1],
                !.status = IF results = <<>> THEN "not_found"
                           ELSE IF IsWeak(results) THEN "ambiguous" ELSE "none"]

\* lines 185-204: the search, and the return when nothing is found or the
\* match is weak
RaceSearch(p, search_term, new_content) ==
  /\ pc[p] = "idle"
  /\ \E results \in {search_notes(docs, now, search_term, 5)} :
       /\ loc' = [loc EXCEPT ![p] = Searched(search_term, new_content, results)]
       /\ pc' = [pc EXCEPT ![p] = IF results = <<>> \/ IsWeak(results)
                                  THEN "done" ELSE "found"]
  /\ UNCHANGED <<docs, index, now, resp, pre, hist, sc>>

\* lines 207-237: the document is read whole, the new text is computed from it
RaceRead(p) ==
  /\ pc[p] = "found"
  /\ loc' = [loc EXCEPT ![p].text = docs[loc[p].target.file],
                        ![p].buf = Rewritten(docs[loc[p].target.file],
                                             loc[p].target.heading,
                                             UpdateText(now, loc[p].content))]
  /\ pc' = [pc EXCEPT ![p] = "read"]
  /\ UNCHANGED <<docs, index, now, resp, pre, hist, sc>>

\* line 240: open(file_path, 'w') empties the file
RaceOpen(p) ==
  /\ pc[p] = "read"
  /\ docs' = [docs EXCEPT ![loc[p].target.file] = <<>>]
  /\ pc' = [pc EXCEPT ![p] = "opened"]
  /\ UNCHANGED <<index, now, resp, pre, hist, loc, sc>>

\* the file after buf is written at offset 0 of a file that holds old
Overlay(buf, old) == buf \o SubSeq(old, Len(buf) + 1, Len(old))

\* the writes made so far
Turns == Cardinality({q \in Procs : loc[q].turn > 0})

\* lines 241-242: the text is written from the start of the file, which is closed
RaceWrite(p) ==
  /\ pc[p] = "opened"
  /\ docs' = [docs EXCEPT ![loc[p].target.file] = Overlay(loc[p].buf, @)]
  /\ loc' = [loc EXCEPT ![p].turn = Turns + 1]
  /\ pc' = [pc EXCEPT ![p] = "written"]
  /\ UNCHANGED <<index, now, resp, pre, hist, sc>>

\* lines 246-254: the index is rebuilt, success is returned
RaceIndex(p, order) ==
  /\ pc[p] = "written"
  /\ index' = update_index(docs, index, now, order, "ok").index
  /\ loc' = [loc EXCEPT ![p].status = "success"]
  /\ pc' = [pc EXCEPT ![p] = "done"]
  /\ UNCHANGED <<docs, now, resp, pre, hist, sc>>

NextRace ==
  \E p \in Procs :
    \/ \E q \in RaceQueries, c \in RaceContents : RaceSearch(p, q, c)
    \/ RaceRead(p)
    \/ RaceOpen(p)
    \/ RaceWrite(p)
    \/ \E o \in HashOrders : RaceIndex(p, o)

SpecRace == InitRace /\ [][NextRace]_vars

(***************************************************************************)
(* Claims about two appends at once                                        *)
(***************************************************************************)
BothSucceeded ==
  /\ \A p \in Procs : pc[p] = "done" /\ loc[p].status = "success"
  /\ loc[1].target.file = loc[2].target.file

\* C7: two appends at once on one document are not coordinated, each reads the
\* whole file and then writes the whole file, and when both have returned
\* success the document is the text the last writer wrote.
C7_LastWriterWins ==
  BothSucceeded
    => \E p \in Procs :
         /\ loc[p].turn = 2
         /\ docs[loc[p].target.file]
              = Rewritten(loc[p].text, loc[p].target.heading,
                          UpdateText(now, loc[p].content))

\* the interleaving of C7: both appends returned success and the document
\* holds the update block of one of them only
C7_LostUpdate ==
  /\ BothSucceeded
  /\ loc[1].content # loc[2].content
  /\ \E p \in Procs :
       /\ IsSub(UpdateText(now, loc[p].content), docs[loc[p].target.file])
       /\ \A q \in Procs \ {p} :
            ~IsSub(UpdateText(now, loc[q].content), docs[loc[q].target.file])

(***************************************************************************)
(* Claims about the score                                                  *)
(***************************************************************************)
HeadingHolds(entry, query) == IsSub(Lower(query), Lower(entry.heading))

\* C8: of two entries scored in the same search, one whose lowercased heading
\* contains the whole lowercased query scores at least 500 and strictly more
\* than one whose heading does not contain it, for queries of any number of
\* terms, whatever the bodies and the dates.
C8_HeadingMatchWins ==
  (/\ sc.phase = "scored"
   /\ sc.impl = "scripts"
   /\ HeadingHolds(sc.a, sc.query)
   /\ ~HeadingHolds(sc.b, sc.query))
    => (sc.score_a >= 500 /\ sc.score_a > sc.score_b)

TermsFound(heading_lower, query_terms) ==
  Cardinality({i \in 1..Len(query_terms) : IsSub(query_terms[i], heading_lower)})

\* the one heading tier of the claim
ClaimedTier(heading_lower, query_lower, query_terms) ==
  IF IsSub(query_lower, heading_lower) THEN 500
  ELSE IF TermsFound(heading_lower, query_terms) = Len(query_terms) THEN 100
       ELSE 20 * TermsFound(heading_lower, query_terms)

ClaimedContent(content_lower, query_terms) ==
  Min2(50, 5 * SumSeq([i \in 1..Len(query_terms) |->
                         Count(content_lower, query_terms[i])]))

ClaimedRecency(day, today) ==
  IF day = NoDate THEN 0
  ELSE IF today - day < 30 THEN 10
       ELSE IF today - day < 90 THEN 5
            ELSE IF today - day < 180 THEN 2 ELSE 0

ClaimedScore(entry, query_lower, query_terms, t) ==
  ClaimedTier(Lower(entry.heading), query_lower, query_terms)
  + ClaimedContent(Lower(entry.content), query_terms)
  + ClaimedRecency(FromIsoFormat(entry.date), Today(t))

\* C9: the score of an entry is one heading tier (500 for the whole query in
\* the heading, else 100 for every term in the heading, else 20 for each term
\* found in it), plus min(50, 5 x the occurrences of the terms in the content),
\* plus 10, 5, 2 or 0 for an age below 30, 90, 180 days or more and 0 for a date
\* that does not parse; this for calculate_relevance of scripts/ and of hooks/.
C9_ScoreFormula ==
  sc.phase = "scored"
    => /\ sc.score_a = ClaimedScore(sc.a, Lower(sc.query), SplitWS(Lower(sc.query)), now)
       /\ sc.score_b = ClaimedScore(sc.b, Lower(sc.query), SplitWS(Lower(sc.query)), now)

\* the same for calculate_relevance of scripts/ alone
ScriptsScoreFormula == sc.phase = "scored" /\ sc.impl = "scripts" => C9_ScoreFormula

(***************************************************************************)
(* Claims about append_to_entry and search_notes, one invocation at a time *)
(***************************************************************************)
AppendReturned(status) == resp.op = "append" /\ resp.out.status = status

\* C1: whenever append_to_entry returns not_found or ambiguous, every document
\* and the index are what they were before the call.
C1_NoWriteOnMiss ==
  (AppendReturned("not_found") \/ AppendReturned("ambiguous"))
    => (docs = pre.docs /\ index = pre.index)

\* an ambiguous append against an archive with several entries and an index
C1_Witness ==
  /\ AppendReturned("ambiguous")
  /\ Len(resp.out.alternatives) >= 2
  /\ pre.index.exists

C2_Terminal(st, found, alternatives) ==
  /\ st \in {"not_found", "ambiguous", "success", "error"}
  /\ (st = "not_found") <=> (found = <<>>)
  /\ (st = "ambiguous") <=> (found # <<>> /\ found[1].relevance < 50)
  /\ (st = "ambiguous") =>
       alternatives = [i \in 1..Min2(3, Len(found)) |->
                         [heading |-> found[i].heading,
                          relevance |-> found[i].relevance]]
  /\ (st \in {"success", "error"}) => (found # <<>> /\ found[1].relevance >= 50)

\* C2: every append_to_entry call ends in one of not_found, ambiguous, success,
\* error; not_found exactly when search(term, 5) on the files before the call is
\* empty, ambiguous exactly when it is not empty and its top relevance is below
\* 50, with the first three results and their relevance as alternatives, and
\* success or error only with a top relevance of 50 or more.
C2_AppendOutcome ==
  resp.op = "append"
    => C2_Terminal(resp.out.status, search_notes(pre.docs, pre.now, resp.query, 5),
                   resp.out.alternatives)

\* an append that found its target and then failed
C2_Witness ==
  /\ AppendReturned("error")
  /\ resp.out.results[1].relevance >= 50

\* the sequence lines with the sequence block put in after its k-th element
InsertLines(lines, k, block) ==
  SubSeq(lines, 1, k) \o block \o SubSeq(lines, k + 1, Len(lines))

\* the lines of the update block of the running append: a blank line, the
\* update line, a blank line
BlockLines == SplitOn(UpdateText(pre.now, resp.content), NL)

TargetFile == resp.out.target.file

LinesBefore == SplitOn(pre.docs[TargetFile], NL)

LinesAfter == SplitOn(docs[TargetFile], NL)

\* C3: a successful append adds exactly one update block to the target document
\* and changes nothing else: the rewritten lines are the original lines with the
\* block put in at one place, and every other document is unchanged.
C3_OneBlockAdded ==
  AppendReturned("success")
    => /\ \E k \in 0..Len(LinesBefore) :
            LinesAfter = InsertLines(LinesBefore, k, BlockLines)
       /\ \A f \in DOMAIN docs : f # TargetFile => docs[f] = pre.docs[f]

TargetLines ==
  {i \in 1..Len(LinesBefore) :
     Strip(LinesBefore[i]) = HeadingMark \o resp.out.target.heading}

HeadingsAfter(h) == {j \in (h + 1)..Len(LinesBefore) : IsTopHeading(LinesBefore[j])}

Boundary(hs) == IF hs = {} THEN Len(LinesBefore) ELSE SetMin(hs) - 1

\* C4: on a successful append the update block is placed immediately before the
\* first top-level heading line that follows the first line equal, after
\* trimming, to "# " + target heading, or at the end of the document when no
\* top-level heading follows that line.
C4_BlockPlacement ==
  (AppendReturned("success") /\ TargetLines # {})
    => LinesAfter = InsertLines(LinesBefore,
                                Boundary(HeadingsAfter(SetMin(TargetLines))),
                                BlockLines)

EntriesBefore == extract_entries(TargetFile, pre.docs[TargetFile])

EntriesAfter == extract_entries(TargetFile, docs[TargetFile])

SameHeading == {i \in 1..Len(EntriesBefore) :
                  EntriesBefore[i].heading = resp.out.target.heading}

BlocksIn(content) == Count(content, UpdateText(pre.now, resp.content))

\* C5: when several entries of the target document share the heading of the
\* target, a successful append puts the update block in the first of them and
\* in no other.
C5_FirstDuplicateOnly ==
  (AppendReturned("success") /\ Cardinality(SameHeading) >= 2)
    => /\ Len(EntriesAfter) = Len(EntriesBefore)
       /\ \A i \in SameHeading :
            BlocksIn(EntriesAfter[i].content)
              = BlocksIn(EntriesBefore[i].content)
                + (IF i = SetMin(SameHeading) THEN 1 ELSE 0)

\* the two last successful appends resolved to the same entry, and the second
\* found the document as the first left it
SameEntryTwice ==
  /\ AppendReturned("success")
  /\ Len(hist) >= 2
  /\ hist[Len(hist) - 1].file = hist[Len(hist)].file
  /\ hist[Len(hist) - 1].place = hist[Len(hist)].place
  /\ hist[Len(hist) - 1].text = pre.docs[TargetFile]

\* the entry holds the block of the first call, and the entry after the second
\* call is the entry as it was followed by text that holds the second block
TwoBlocks(first, second, before, after) ==
  /\ IsSub(first, before)
  /\ Len(after) >= Len(before)
  /\ SubSeq(after, 1, Len(before)) = before
  /\ IsSub(second, SubSeq(after, Len(before) + 1, Len(after)))

\* C6: two successive successful appends that resolve to the same entry leave
\* two update blocks in that entry: the block of the first call still where it
\* was, the block of the second call after it and before the next heading.
C6_SecondBlockAfterFirst ==
  SameEntryTwice
    => /\ Len(EntriesAfter) = Len(EntriesBefore)
       /\ TwoBlocks(hist[Len(hist) - 1].block, hist[Len(hist)].block,
                    EntriesBefore[hist[Len(hist)].place].content,
                    EntriesAfter[hist[Len(hist)].place].content)

ScoresOf(es, query_lower, t) ==
  [j \in 1..Len(es) |->
     calculate_relevance(es[j], query_lower, SplitWS(query_lower), t)]

C10_Ranked(rs, es, scores, max_results) ==
  /\ Len(rs) <= max_results
  /\ \A i \in 1..Len(rs) : rs[i].relevance > 0
  /\ \A i \in 1..(Len(rs) - 1) : rs[i].relevance >= rs[i + 1].relevance
  /\ \A i \in 1..Len(rs) :
       \E j \in 1..Len(es) : /\ es[j].heading = rs[i].heading
                             /\ es[j].file = rs[i].file
                             /\ scores[j] = rs[i].relevance
  /\ rs # <<>> =>
       Cardinality({j \in 1..Len(es) : scores[j] > rs[Len(rs)].relevance})
         = Cardinality({i \in 1..Len(rs) : rs[i].relevance > rs[Len(rs)].relevance})

\* C10: search returns at most max_results results, each an entry with a
\* relevance above 0, in order of non-increasing relevance, and every entry
\* that scores more than a returned one is returned too.
C10_SearchRanked ==
  resp.op = "search"
    => \A es \in {AllEntries(docs)} :
         \A scores \in {ScoresOf(es, Lower(resp.query), now)} :
           C10_Ranked(resp.out.results, es, scores, resp.max)

\* a search that was cut short: two results of different relevance returned,
\* a third entry with a relevance above 0 left out
C10_Witness ==
  /\ resp.op = "search"
  /\ resp.max = 2
  /\ Len(resp.out.results) = 2
  /\ resp.out.results[1].relevance > resp.out.results[2].relevance
  /\ Len(Matches(docs, now, resp.query)) > 2

(***************************************************************************)
(* search_notes step by step: one document read at a time, one entry       *)
(* scored at a time, the wall clock advancing in between.  Process 1 is    *)
(* the searching process; loc[1] holds its locals, and in trace the        *)
(* entries it scored, in the order it scored them.                         *)
(***************************************************************************)
FileOct26 == [dir |-> <<"2", "0", "2", "6">>, name |-> <<"1", "0", "-", "O", "c", "t", "o", "b", "e", "r", ".", "m", "d">>]

MonthEnd == [y |-> 2026, m |-> 11, d |-> 30]

\* the day after t
NextDay(t) ==
  IF t.d < DaysInMonth(t.y, t.m) THEN [t EXCEPT !.d = t.d + 1]
  ELSE IF t.m < 12 THEN [y |-> t.y, m |-> t.m + 1, d |-> 1]
       ELSE [y |-> t.y + 1, m |-> 1, d |-> 1]

ScanArchives ==
  { (FileOct26 :> DocPlain) @@ (FileSep26 :> DocPlain),
    (FileMar25 :> DocPlain) @@ (FileIdeas :> DocLast),
    (FileNov26 :> DocPlain) }

ScanQueries == { <<"x">>, <<"x", " ", "y">>, <<"q">> }

ScanLimits == {2, 5}

MaxTicks == 1

MaxFailures == 1

\* extract_entries when reading line fail of the file raises (fail = 0: no
\* line does): the except clause of lines 73-74 returns the entries appended
\* until then, without the entry in progress
RECURSIVE ExtractUntil(_, _, _, _, _)
ExtractUntil(f, lines, i, cur, fail) ==
  IF i = fail THEN <<>>
  ELSE IF i > Len(lines)
       THEN (IF cur # <<>> /\ ~IsFileHeader(cur[1].heading) THEN cur ELSE <<>>)
       ELSE IF IsTopHeading(lines[i])
            THEN (IF cur # <<>> /\ ~IsFileHeader(cur[1].heading) THEN cur ELSE <<>>)
                 \o ExtractUntil(f, lines, i + 1,
                      <<[heading |-> StripChars(lines[i], {"#", " ", NL}),
                         content |-> <<>>,
                         file |-> f,
                         date |-> extract_date_from_file(f)]>>, fail)
            ELSE IF cur # <<>>
                 THEN ExtractUntil(f, lines, i + 1,
                        <<[cur[1] EXCEPT !.content = cur[1].content \o lines[i]]>>, fail)
                 ELSE ExtractUntil(f, lines, i + 1, cur, fail)

extract_entries_io(f, text, fail) == ExtractUntil(f, FileLines(text), 1, <<>>, fail)

\* the entries of a document with their places in it
Placed(es) == [i \in 1..Len(es) |-> [entry |-> es[i], place |-> i]]

InitScan ==
  /\ docs \in ScanArchives
  /\ index = NoIndex
  /\ now \in {StartClock, MonthEnd}
  /\ resp = NoResp
  /\ pre = [docs |-> docs, index |-> NoIndex, now |-> now]
  /\ hist = <<>>
  /\ pc = [p \in Procs |-> "idle"]
  /\ loc = [p \in Procs |-> NoLoc]
  /\ sc = NoScore

\* lines 117-122: the locals of search_notes before the first document
ScanStart(query, max_results) ==
  /\ pc[1] = "idle"
  /\ loc' = [loc EXCEPT ![1] =
       [query |-> query, max |-> max_results, files |-> SearchOrder(docs),
        pending |-> <<>>, results |-> <<>>, trace |-> <<>>, failed |-> {},
        ticks |-> 0]]
  /\ pc' = [pc EXCEPT ![1] = "scan"]
  /\ UNCHANGED <<docs, index, now, resp, pre, hist, sc>>

\* line 125: entries = extract_entries(md_file); reading line fail raises
ScanRead ==
  /\ pc[1] = "scan"
  /\ loc[1].pending = <<>>
  /\ loc[1].files # <<>>
  /\ \E fail \in 0..Len(FileLines(docs[loc[1].files[1]])) :
       /\ fail # 0 => Cardinality(loc[1].failed) < MaxFailures
       /\ loc' = [loc EXCEPT
            ![1].pending = Placed(extract_entries_io(loc[1].files[1],
                                                     docs[loc[1].files[1]], fail)),
            ![1].files = Tail(loc[1].files),
            ![1].failed = IF fail = 0 THEN @ ELSE @ \cup {loc[1].files[1]}]
  /\ UNCHANGED <<docs, index, now, resp, pre, hist, pc, sc>>

\* what scoring the entry e at the clock value t adds to the trace
Traced(e, query_lower, t) ==
  [file |-> e.entry.file, place |-> e.place, date |-> e.entry.date,
   boost |-> RecencyBoost(e.entry.date, t),
   relevance |-> calculate_relevance(e.entry, query_lower, SplitWS(query_lower), t)]

\* lines 126-135: one entry is scored; calculate_relevance reads the clock
ScanScore ==
  /\ pc[1] = "scan"
  /\ loc[1].pending # <<>>
  /\ \E t \in {Traced(loc[1].pending[1], Lower(loc[1].query), now)} :
       loc' = [loc EXCEPT
         ![1].pending = Tail(loc[1].pending),
         ![1].trace = Append(loc[1].trace, t),
         ![1].results = loc[1].results
                        \o ResultOf(loc[1].pending[1].entry, t.relevance)]
  /\ UNCHANGED <<docs, index, now, resp, pre, hist, pc, sc>>

\* midnight passes while the search runs
ScanTick ==
  /\ pc[1] = "scan"
  /\ loc[1].ticks < MaxTicks
  /\ now' = NextDay(now)
  /\ loc' = [loc EXCEPT ![1].ticks = loc[1].ticks + 1]
  /\ UNCHANGED <<docs, index, resp, pre, hist, pc, sc>>

\* lines 138-139 and main, lines 599-601: sort, cut, print
ScanEnd ==
  /\ pc[1] = "scan"
  /\ loc[1].pending = <<>>
  /\ loc[1].files = <<>>
  /\ resp' = [op |-> "search", query |-> loc[1].query, content |-> <<>>,
              max |-> loc[1].max,
              out |-> [status |-> "ok",
                       results |-> Slice(SortByRelevance(loc[1].results),
                                         loc[1].max)]]
  /\ pc' = [pc EXCEPT ![1] = "done"]
  /\ UNCHANGED <<docs, index, now, pre, hist, loc, sc>>

NextScan ==
  \/ \E q \in ScanQueries, k \in ScanLimits : ScanStart(q, k)
  \/ ScanRead
  \/ ScanScore
  \/ ScanTick
  \/ ScanEnd

SpecScan == InitScan /\ [][NextScan]_vars

(***************************************************************************)
(* Claims about the search, step by step                                   *)
(***************************************************************************)
\* a comes before b in the scan: its directory name is the greater, or in one
\* directory its file name is the greater, or in one file its place is the lesser
ScannedBefore(a, b) ==
  \/ LexLess(b.file.dir, a.file.dir)
  \/ a.file.dir = b.file.dir /\ LexLess(b.file.name, a.file.name)
  \/ a.file = b.file /\ a.place < b.place

WithRelevance(rs, v) == SelectSeq(rs, LAMBDA r : r.relevance = v)

IsPrefix(a, b) == Len(a) <= Len(b) /\ SubSeq(b, 1, Len(a)) = a

C12_OneClockPerCall ==
  pc[1] # "idle"
    => \A i, j \in 1..Len(loc[1].trace) :
         loc[1].trace[i].date = loc[1].trace[j].date
           => loc[1].trace[i].boost = loc[1].trace[j].boost

\* C15: a document whose read fails, at whatever line, contributes no entry:
\* none of its entries is in the results of the search that was scanning.
C15_FailedDocumentSkipped ==
  (pc[1] = "done" /\ resp.op = "search")
    => \A k \in 1..Len(resp.out.results) :
         resp.out.results[k].file \notin loc[1].failed

(***************************************************************************)
(* Extraction on its own: one document at one path, given to               *)
(* extract_entries of scripts/ or of hooks/.                               *)
(***************************************************************************)
FileDraft == [dir |-> <<"2", "0", "2", "6">>, name |-> <<"d", "r", "a", "f", "t", "-", "a", ".", "m", "d">>]

\* the lines documents are made of: a heading, a heading that ends with a #,
\* a second-level heading, a body line, the title line add_note writes
ExtractLines ==
  { <<"#", " ", "x", NL>>,
    <<"#", " ", "c", "#", NL>>,
    <<"#", "#", " ", "s", NL>>,
    <<"a", NL>>,
    <<"#", " ", "N", "o", "t", "e", "s", " ", "-", " ", "M", "a", "y", " ", "2", "0", "2", "6", NL>> }

MaxDocLines == 3

ExtractTexts ==
  { Flatten(ls) : ls \in UNION { [1..n -> ExtractLines] : n \in 1..MaxDocLines } }

ExtractFiles == {FileNov26, FileIdeas, FileDraft}

InitExtract ==
  /\ docs = NoDocs
  /\ index = NoIndex
  /\ now = StartClock
  /\ resp = NoResp
  /\ pre = [docs |-> NoDocs, index |-> NoIndex, now |-> StartClock]
  /\ hist = <<>>
  /\ pc = [p \in Procs |-> "idle"]
  /\ loc = [p \in Procs |-> NoLoc]
  /\ sc \in [phase : {"input"}, file : ExtractFiles, text : ExtractTexts]

EntriesBy(impl, f, text) ==
  IF impl = "scripts" THEN extract_entries(f, text) ELSE hooks_extract_entries(f, text)

\* entries = extract_entries(md_file)
Extract(impl) ==
  /\ sc.phase = "input"
  /\ sc' = [phase |-> "extracted", impl |-> impl, file |-> sc.file, text |-> sc.text,
            date |-> extract_date_from_file(sc.file),
            entries |-> EntriesBy(impl, sc.file, sc.text)]
  /\ UNCHANGED <<docs, index, now, resp, pre, hist, pc, loc>>

NextExtract == \E impl \in Implementations : Extract(impl)

SpecExtract == InitExtract /\ [][NextExtract]_vars

(***************************************************************************)
(* Claims about extraction                                                 *)
(***************************************************************************)
\* a heading of the form Notes - <Month> <Year>
IsTitle(heading) ==
  /\ Len(heading) >= 14
  /\ SubSeq(heading, 1, 8) = <<"N", "o", "t", "e", "s", " ", "-", " ">>
  /\ heading[Len(heading) - 4] = " "
  /\ \A i \in 9..(Len(heading) - 5) : heading[i] \in Letters
  /\ \A i \in (Len(heading) - 3)..Len(heading) : heading[i] \in Digits

\* C13: no entry that extraction returns, and so no search result, append
\* target or snapshot entry, has a heading of the form Notes - <Month> <Year>,
\* wherever the title line stands in the document; this for extract_entries
\* of scripts/ and of hooks/.
C13_NoTitleEntry ==
  sc.phase = "extracted"
    => \A i \in 1..Len(sc.entries) : ~IsTitle(sc.entries[i].heading)

\* the same for extract_entries of scripts/ alone
ScriptsNoTitleEntry == (sc.phase = "extracted" /\ sc.impl = "scripts") => C13_NoTitleEntry

\* the text of a line without its terminator
Unterminated(line) ==
  IF line # <<>> /\ line[Len(line)] = NL THEN SubSeq(line, 1, Len(line) - 1) ELSE line

IsTitleLine(line) ==
  IsTopHeading(line) /\ IsTitle(SubSeq(Unterminated(line), 3, Len(Unterminated(line))))

\* the top-level heading line that line i belongs to, or 0
HeadingOf(lines, i) ==
  IF \E j \in 1..i : IsTopHeading(lines[j])
  THEN SetMax({j \in 1..i : IsTopHeading(lines[j])}) ELSE 0

\* the document from its first top-level heading line on, without the title
\* entries
WithoutTitle(lines) ==
  Flatten(SelectSeq(
    [i \in 1..Len(lines) |->
       IF HeadingOf(lines, i) # 0 /\ ~IsTitleLine(lines[HeadingOf(lines, i)])
       THEN lines[i] ELSE <<>>],
    LAMBDA l : l # <<>>))

\* each entry written out as the line "# " + heading followed by its content
Rejoined(es) ==
  Flatten([i \in 1..Len(es) |-> HeadingMark \o es[i].heading \o <<NL>> \o es[i].content])

\* C14: extraction is lossless for entry boundaries: writing out each entry as
\* the line "# " + heading followed by its content, in the order returned,
\* reproduces the document from its first top-level heading line on, except
\* for the filtered title entry.
C14_Lossless ==
  (sc.phase = "extracted" /\ sc.impl = "scripts")
    => Rejoined(sc.entries) = WithoutTitle(FileLines(sc.text))

\* the path is <year>/<MM>-<MonthName>.md
FollowsConvention(f) ==
  /\ Len(f.dir) = 4 /\ AllDigits(f.dir)
  /\ Len(f.name) >= 3 /\ AllDigits(SubSeq(f.name, 1, 2)) /\ f.name[3] = "-"

\* C16: the date of an entry is derived from the path of its document when
\* the path follows the <year>/<MM-MonthName>.md convention, and is the
\* current date when it does not.
C16_DateFromPath ==
  sc.phase = "extracted"
    => sc.date = (IF FollowsConvention(sc.file)
                  THEN sc.file.dir \o <<"-">> \o SubSeq(sc.file.name, 1, 2)
                       \o <<"-", "0", "1">>
                  ELSE FormatDate(now))


(***************************************************************************)
(* Search over entries with long bodies                                    *)
(***************************************************************************)
MaxBody == 303

BodyLengths == {0, 1} \cup ((MaxBody - 5)..MaxBody)

BodyChars == {"c", "d"}

\* a month file with one entry x whose body is n times the character c
LongDoc(n, c) == <<"#", " ", "x", NL>> \o [i \in 1..n |-> c] \o <<NL>>

LongArchives == {FileNov26 :> LongDoc(n, c) : n \in BodyLengths, c \in BodyChars}

InitLong ==
  /\ docs \in LongArchives
  /\ index = NoIndex
  /\ now = StartClock
  /\ resp = NoResp
  /\ pre = [docs |-> docs, index |-> NoIndex, now |-> StartClock]
  /\ hist = <<>>
  /\ pc = [p \in Procs |-> "idle"]
  /\ loc = [p \in Procs |-> NoLoc]
  /\ sc = NoScore

NextLong ==
  \/ \E q \in Queries, k \in 1..MaxResults : SearchCmd(q, k)
  \/ Exit

SpecLong == InitLong /\ [][NextLong]_vars

\* the entries of the documents a result can stand for
SourcesOf(d, result) ==
  {e \in Range(AllEntries(d)) : e.heading = result.heading /\ e.file = result.file}

EndsWithEllipsis(content) ==
  /\ Len(content) >= 3
  /\ SubSeq(content, Len(content) - 2, Len(content)) = Ellipsis

\* C17: the content of every search result has at most 300 characters; it is
\* the body of its entry when that has at most 300 characters, and otherwise
\* a cut of the body that ends with an ellipsis.
C17_ContentAtMost300 ==
  resp.op = "search" =>
    \A i \in 1..Len(resp.out.results) :
      LET r == resp.out.results[i]
      IN /\ Len(r.content) <= 300
         /\ \E e \in SourcesOf(pre.docs, r) :
              IF Len(e.content) <= 300
              THEN r.content = e.content
              ELSE /\ EndsWithEllipsis(r.content)
                   /\ IsPrefix(SubSeq(r.content, 1, Len(r.content) - 3), e.content)


(***************************************************************************)
(* Claims about the rebuild of the snapshot                                *)
(***************************************************************************)
\* the record stands for the entry
RecordOf(record, entry) ==
  /\ record.heading = entry.heading
  /\ record.file = entry.file
  /\ record.date = entry.date
  /\ IsPrefix(record.content_preview, Strip(entry.content))

\* the entries of the documents of d, directory by directory
Extractable(d) == EntriesOf(d, IndexOrder(d))

\* C18: after a rebuild that returns success the snapshot holds one record per
\* entry that extraction returns from the documents, and no other record;
\* total_entries is the number of records, total_files the number of documents
\* scanned, and the response carries the same two counts; without documents
\* the snapshot has no entries and both counts are 0.
C18_RebuildFromScratch ==
  (resp.op = "reindex" /\ resp.out.status = "success") =>
    \A es \in {Extractable(docs)} :
      /\ index.exists
      /\ Len(index.entries) = Len(es)
      /\ \A i \in 1..Len(es) : RecordOf(index.entries[i], es[i])
      /\ index.total_entries = Len(index.entries)
      /\ index.total_files = Cardinality({f \in DOMAIN docs : ~StartsWith(f.dir, <<".">>)})
      /\ resp.out.total_files = index.total_files
      /\ resp.out.total_entries = index.total_entries
      /\ (DOMAIN docs = {} =>
            index.entries = <<>> /\ index.total_files = 0 /\ index.total_entries = 0)

\* a successful rebuild over a snapshot that had other records
C18_Witness ==
  /\ resp.op = "reindex"
  /\ resp.out.status = "success"
  /\ pre.index.exists
  /\ pre.index.entries # <<>>
  /\ pre.index.entries # index.entries

\* a successful rebuild without documents
C18_EmptyRoot ==
  /\ resp.op = "reindex"
  /\ resp.out.status = "success"
  /\ DOMAIN docs = {}


(***************************************************************************)
(* Rebuilds over documents with several words                              *)
(***************************************************************************)
\* an entry whose heading and body hold one word in two spellings, and a stop
\* word with a capital
DocCase ==
  <<"#", " ", "P", "l", "a", "n", " ", "p", "l", "a", "n", NL,
    "T", "h", "e", " ", "P", "l", "a", "n", NL>>

\* an entry with two words in its body
DocTwo ==
  <<"#", " ", "x", NL, "b", "e", "t", "a", " ", "a", "l", "p", "h", "a", NL>>

WordLetters ==
  <<"a", "b", "c", "d", "e", "f", "g", "h", "i", "j", "k", "l", "m", "n", "o", "p">>

\* an entry with 16 different words in its body
DocMany ==
  <<"#", " ", "y", NL>>
  \o Flatten([i \in 1..Len(WordLetters) |->
                <<WordLetters[i], WordLetters[i], WordLetters[i], " ">>])
  \o <<NL>>

IndexDocs == {DocCase, DocTwo, DocMany, DocPlain}

IndexArchives ==
  {FileNov26 :> a : a \in IndexDocs}
  \cup {(FileNov26 :> a) @@ (FileMar25 :> b) : a, b \in IndexDocs}

InitIndex ==
  /\ docs \in IndexArchives
  /\ index = NoIndex
  /\ now = StartClock
  /\ resp = NoResp
  /\ pre = [docs |-> docs, index |-> NoIndex, now |-> StartClock]
  /\ hist = <<>>
  /\ pc = [p \in Procs |-> "idle"]
  /\ loc = [p \in Procs |-> NoLoc]
  /\ sc = NoScore

\* every rebuild is a run of main in a process of its own, with its own hash
\* seed
NextIndex ==
  \/ \E o \in HashOrders, io \in {"ok", "index_fails"} : ReindexCmd(o, io)
  \/ Exit

SpecIndex == InitIndex /\ [][NextIndex]_vars

(***************************************************************************)
(* Claims about keywords                                                   *)
(***************************************************************************)
\* the words of the heading and of the content of the entry of a record
WordsOfEntry(d, record) ==
  UNION {WordSet(e.heading) \cup WordSet(e.content) :
           e \in {x \in Range(Extractable(d)) :
                    x.heading = record.heading /\ x.file = record.file}}

AtMostTen(kw) == Len(kw) <= 10

AllLowercase(kw) == \A k \in 1..Len(kw) : kw[k] = Lower(kw[k])

RunsOfEntry(kw, words) ==
  \A k \in 1..Len(kw) : \E w \in words : Lower(w) = Lower(kw[k])

NoCaseDuplicate(kw) ==
  \A j, k \in 1..Len(kw) : j # k => Lower(kw[j]) # Lower(kw[k])

NoStopWord(kw) == \A k \in 1..Len(kw) : Lower(kw[k]) \notin common_words

\* the parts of C19 that hold: at most 10 keywords, each a word of the entry,
\* none a stop word
KeywordsBounded ==
  index.exists =>
    \A i \in 1..Len(index.entries) :
      /\ AtMostTen(index.entries[i].keywords)
      /\ RunsOfEntry(index.entries[i].keywords, WordsOfEntry(docs, index.entries[i]))
      /\ NoStopWord(index.entries[i].keywords)

\* C19: in every snapshot a rebuild writes, the keyword list of every entry
\* has at most 10 elements, every keyword is lowercase and is an alphabetic
\* run of at least 3 letters of the heading or the content of the entry, no
\* keyword occurs twice, spellings that differ in case counted as one, and no
\* keyword is a stop word.
C19_KeywordList ==
  index.exists =>
    \A i \in 1..Len(index.entries) :
      /\ AtMostTen(index.entries[i].keywords)
      /\ AllLowercase(index.entries[i].keywords)
      /\ RunsOfEntry(index.entries[i].keywords, WordsOfEntry(docs, index.entries[i]))
      /\ NoCaseDuplicate(index.entries[i].keywords)
      /\ NoStopWord(index.entries[i].keywords)

\* C20: a rebuild over documents for which a snapshot exists already, the
\* documents unchanged since, writes for every entry the keyword list the
\* earlier rebuild wrote.
C20_KeywordsDeterministic ==
  (/\ resp.op = "reindex"
   /\ resp.out.status = "success"
   /\ pre.index.exists
   /\ pre.docs = docs) =>
    /\ Len(index.entries) = Len(pre.index.entries)
    /\ \A i \in 1..Len(index.entries) :
         index.entries[i].keywords = pre.index.entries[i].keywords

\* the same keywords, in whatever order
SameKeywordSets ==
  (/\ resp.op = "reindex"
   /\ resp.out.status = "success"
   /\ pre.index.exists
   /\ pre.docs = docs) =>
    /\ Len(index.entries) = Len(pre.index.entries)
    /\ \A i \in 1..Len(index.entries) :
         Range(index.entries[i].keywords) = Range(pre.index.entries[i].keywords)


(***************************************************************************)
(* Claims about the failures of append_to_entry                            *)
(***************************************************************************)
\* the snapshot has one record for every entry of the documents of d
Describes(idx, d) ==
  /\ idx.exists
  /\ \A es \in {Extractable(d)} :
       /\ Len(idx.entries) = Len(es)
       /\ \A i \in 1..Len(es) : RecordOf(idx.entries[i], es[i])
       /\ idx.total_entries = Len(es)

\* C21: when append_to_entry returns success, the snapshot on disk at the
\* time of the response describes the documents as they are after the append.
C21_SnapshotFollowsAppend ==
  (resp.op = "append" /\ resp.out.status = "success") => Describes(index, docs)


\* search_notes(search_term, 5) has a first result of relevance 50 or more:
\* append_to_entry goes on to read the document of that result
HasTarget(d, t, search_term) ==
  \A rs \in {search_notes(d, t, search_term, 5)} : rs # <<>> /\ ~IsWeak(rs)

\* C22: when the read of the target document fails, append_to_entry returns
\* error and leaves every document and the snapshot as they were; when the
\* write of the target document fails, at the open or after it, it returns
\* error and the snapshot is not rebuilt.
C22_FailedAppend ==
  [][(resp'.op = "append" /\ HasTarget(docs, now, resp'.query)) =>
       /\ AppendCmd(resp'.query, resp'.content, "ascending", "read_fails") =>
            (resp'.out.status = "error" /\ docs' = docs /\ index' = index)
       /\ (AppendCmd(resp'.query, resp'.content, "ascending", "open_fails")
             \/ AppendCmd(resp'.query, resp'.content, "ascending", "write_fails")) =>
            (resp'.out.status = "error" /\ index' = index)]_vars

\* an append that found its target and failed, with documents on disk and no
\* snapshot, ends with the documents as they were and still no snapshot
C22_Witness ==
  /\ AppendReturned("error")
  /\ docs = pre.docs
  /\ docs # NoDocs
  /\ ~index.exists


(***************************************************************************)
(* Migration of a directory of markdown files                              *)
(***************************************************************************)
CR == "\r"

\* mtime.strftime('%B')
MonthNames ==
  <<<<"J", "a", "n", "u", "a", "r", "y">>,
     <<"F", "e", "b", "r", "u", "a", "r", "y">>,
     <<"M", "a", "r", "c", "h">>,
     <<"A", "p", "r", "i", "l">>,
     <<"M", "a", "y">>,
     <<"J", "u", "n", "e">>,
     <<"J", "u", "l", "y">>,
     <<"A", "u", "g", "u", "s", "t">>,
     <<"S", "e", "p", "t", "e", "m", "b", "e", "r">>,
     <<"O", "c", "t", "o", "b", "e", "r">>,
     <<"N", "o", "v", "e", "m", "b", "e", "r">>,
     <<"D", "e", "c", "e", "m", "b", "e", "r">>>>

\* year_dir / f"{mtime.month:02d}-{month_name}.md", lines 489-494
MonthFile(mtime) ==
  [dir |-> Pad4(mtime.y),
   name |-> Pad2(mtime.m) \o <<"-">> \o MonthNames[mtime.m] \o MdSuffix]

\* what read_text returns for the characters of a file: in text mode every
\* "\r\n" and every other "\r" is read as "\n"
ReadText(raw) ==
  [k \in 1..Cardinality({i \in 1..Len(raw) :
                           ~(raw[i] = CR /\ i < Len(raw) /\ raw[i + 1] = NL)}) |->
     IF raw[SortedNats({i \in 1..Len(raw) :
                          ~(raw[i] = CR /\ i < Len(raw) /\ raw[i + 1] = NL)})[k]] = CR
     THEN NL
     ELSE raw[SortedNats({i \in 1..Len(raw) :
                            ~(raw[i] = CR /\ i < Len(raw) /\ raw[i + 1] = NL)})[k]]]

\* os.linesep of the two kinds of platform
Lineseps == {<<NL>>, <<CR, NL>>}

\* what f.write(text) puts into a file opened in text mode: every "\n" is
\* written as os.linesep
WriteText(text, linesep) ==
  Flatten([i \in 1..Len(text) |-> IF text[i] = NL THEN linesep ELSE <<text[i]>>])

\* lines 496-503: the month file after the content is written to it
MonthFileWritten(d, f, content, linesep) ==
  (IF f \in DOMAIN d THEN d[f] \o WriteText(<<NL, NL>>, linesep) ELSE <<>>)
  \o WriteText(content, linesep)
  \o (IF EndsWith(content, <<NL>>) THEN <<>> ELSE WriteText(<<NL>>, linesep))

\* the documents with the document f set to text, f new or not
WithFile(d, f, text) == [g \in DOMAIN d \cup {f} |-> IF g = f THEN text ELSE d[g]]

\* lines 474-514, the body of the loop for one source file; m is the state of
\* the migration: the documents and the three lists
MigrateFile(m, src, linesep) ==
  IF StartsWith(src.name, <<".">>)
  THEN [m EXCEPT !.skipped = Append(@, src.name)]
  ELSE IF ~src.readable
       THEN [m EXCEPT !.errors = Append(@, src.name)]
       ELSE IF Strip(ReadText(src.raw)) = <<>>
            THEN [m EXCEPT !.skipped = Append(@, src.name)]
            ELSE [m EXCEPT !.docs = WithFile(m.docs, MonthFile(src.mtime),
                                      MonthFileWritten(m.docs, MonthFile(src.mtime),
                                                       ReadText(src.raw), linesep)),
                           !.imported = Append(@, src.name)]

\* line 474: the loop over the source files in the order glob yields them
RECURSIVE MigrateFrom(_, _, _, _)
MigrateFrom(m, source, i, linesep) ==
  IF i > Len(source) THEN m
  ELSE MigrateFrom(MigrateFile(m, source[i], linesep), source, i + 1, linesep)

\* lines 516-530: the index is rebuilt, the lists are counted
Migrated(m, idx, t, order, io) ==
  [docs |-> m.docs,
   index |-> update_index(m.docs, idx, t, order, io).index,
   out |-> [status |-> IF m.errors = <<>> THEN "success" ELSE "partial",
            imported |-> m.imported, skipped |-> m.skipped, errors |-> m.errors,
            index_rebuilt |-> update_index(m.docs, idx, t, order, io).out.status = "success"]]

\* migrate for a source directory that exists
migrate(source, d, idx, t, order, io, linesep) ==
  Migrated(MigrateFrom([docs |-> d, imported |-> <<>>, skipped |-> <<>>, errors |-> <<>>],
                       source, 1, linesep),
           idx, t, order, io)

SourceNames ==
  { <<"a", ".", "m", "d">>, <<"b", ".", "m", "d">>, <<".", "c", ".", "m", "d">> }

\* an entry with its last line not terminated, an entry with its last line
\* terminated, white space only, nothing, two lines that end in "\r\n"
SourceContents ==
  { <<"#", " ", "x", NL, "a">>, <<"#", " ", "y", NL>>, <<" ", NL>>, <<>>,
    <<"a", CR, NL, "b", CR, NL>> }

SourceTimes == { [y |-> 2026, m |-> 11], [y |-> 2026, m |-> 10] }

\* the files of a source directory; one that cannot be decoded has no content
\* worth telling apart
SourceFiles ==
  [name : SourceNames, raw : SourceContents, mtime : SourceTimes, readable : {TRUE}]
  \cup [name : SourceNames, raw : {<<>>}, mtime : SourceTimes, readable : {FALSE}]

\* the source directories, with one file or two: their files in the order
\* glob yields them
Sources ==
  {<<f>> : f \in SourceFiles}
  \cup {fg \in SourceFiles \X SourceFiles : fg[1].name # fg[2].name}

InitMigrate ==
  /\ docs \in {NoDocs, FileNov26 :> DocPlain}
  /\ index = NoIndex
  /\ now = StartClock
  /\ resp = NoResp
  /\ pre = [docs |-> docs, index |-> NoIndex, now |-> StartClock]
  /\ hist = <<>>
  /\ pc = [p \in Procs |-> "idle"]
  /\ loc = [p \in Procs |-> NoLoc]
  /\ sc \in [phase : {"source"}, source : Sources, linesep : Lineseps]

Migration(r) ==
  /\ docs' = r.docs
  /\ index' = r.index
  /\ resp' = [op |-> "migrate", query |-> <<>>, content |-> <<>>, max |-> 0,
              out |-> r.out]

\* main: command 'migrate'
MigrateCmd(order, io) ==
  /\ sc.phase = "source"
  /\ resp.op = "none"
  /\ Migration(migrate(sc.source, docs, index, now, order, io, sc.linesep))
  /\ sc' = [sc EXCEPT !.phase = "migrated"]
  /\ pre' = Snapshot
  /\ UNCHANGED <<now, hist, pc, loc>>

NextMigrate == \E o \in HashOrders, io \in {"ok", "index_fails"} : MigrateCmd(o, io)

SpecMigrate == InitMigrate /\ [][NextMigrate]_vars


(***************************************************************************)
(* Claims about migration                                                  *)
(***************************************************************************)
Dotted(src) == StartsWith(src.name, <<".">>)

\* f is a document of the year and the month of mtime
IsMonthOf(f, mtime) ==
  /\ f.dir = Pad4(mtime.y)
  /\ StartsWith(f.name, Pad2(mtime.m) \o <<"-">>)

LineEnds(s) == Range(s) \subseteq {CR, NL}

\* text is first, line ends with a blank line among them, second, and
\* possibly the end of the last line
Merged(text, first, second) ==
  \E k \in 2..4, t \in 0..2 :
    /\ Len(text) = Len(first) + k + Len(second) + t
    /\ SubSeq(text, 1, Len(first)) = first
    /\ LineEnds(SubSeq(text, Len(first) + 1, Len(first) + k))
    /\ SubSeq(text, Len(first) + k + 1, Len(first) + k + Len(second)) = second
    /\ LineEnds(SubSeq(text, Len(first) + k + Len(second) + 1, Len(text)))

\* the three parts of C23 for the source files that satisfy Meant
MigrateKeeps(Meant(_)) ==
  resp.op = "migrate" =>
    /\ \A i \in 1..Len(sc.source) :
         Dotted(sc.source[i]) => sc.source[i].name \notin Range(resp.out.imported)
    /\ \A i \in 1..Len(sc.source) :
         (~Dotted(sc.source[i]) /\ Meant(sc.source[i])) =>
           \E f \in DOMAIN docs :
             /\ IsMonthOf(f, sc.source[i].mtime)
             /\ IsSub(sc.source[i].raw, docs[f])
    /\ \A i, j \in 1..Len(sc.source) :
         (/\ i < j
          /\ ~Dotted(sc.source[i]) /\ Meant(sc.source[i])
          /\ ~Dotted(sc.source[j]) /\ Meant(sc.source[j])
          /\ sc.source[i].mtime = sc.source[j].mtime
          /\ pre.docs = NoDocs) =>
           \E f \in DOMAIN docs :
             /\ IsMonthOf(f, sc.source[i].mtime)
             /\ Merged(docs[f], sc.source[i].raw, sc.source[j].raw)

NonEmpty(src) == src.readable /\ src.raw # <<>>

\* not only white space, every line ended the way the platform ends lines
PlatformText(src) ==
  /\ src.readable
  /\ Strip(src.raw) # <<>>
  /\ WriteText(ReadText(src.raw), sc.linesep) = src.raw

\* C23: migrate skips the source files whose name starts with a dot; every
\* source file that is not empty is written to the document of the year and
\* the month of its modification time; two source files of one month are in
\* one document, the first enumerated first, a blank-line separator, then the
\* second, both complete and unchanged.
C23_MigrateKeepsContent == MigrateKeeps(NonEmpty)

\* the same for the files that are not white space only and end their lines
\* as the platform does
MigrateKeepsPlatformText == MigrateKeeps(PlatformText)


(***************************************************************************)
(* Quick notes: the save and the enrichment thread                         *)
(***************************************************************************)
\* notes_manager.py, get_current_month_file
get_current_month_file(t) == MonthFile([y |-> t.y, m |-> t.m])

TitleOpen == <<"#", " ", "N", "o", "t", "e", "s", " ", "-", " ">>

CreatedOpen == <<"*", "*", "C", "r", "e", "a", "t", "e", "d", ":", "*", "*", " ">>

\* notes_manager.py, add_note, line 95: the title line of a new month file
TitleText(t) ==
  TitleOpen \o MonthNames[t.m] \o <<" ">> \o Pad4(t.y) \o <<NL, NL>>

\* notes_manager.py, add_note, line 99
EntryText(t, heading, content) ==
  <<NL, "#", " ">> \o heading \o <<NL>> \o Strip(content) \o <<NL, NL>>
  \o CreatedOpen \o FormatDate(t) \o <<NL>>

\* notes_manager.py, add_note.  io names what goes wrong: nothing, the process
\* ends before it writes, or it ends after the title is written
add_note(d, idx, t, heading, content, order, io) ==
  IF io = "add_fails"
  THEN [status |-> "error", docs |-> d, index |-> idx, heading |-> heading,
        file |-> get_current_month_file(t)]
  ELSE IF io = "entry_fails"
       THEN [status |-> "error",
             docs |-> IF get_current_month_file(t) \in DOMAIN d THEN d
                      ELSE WithFile(d, get_current_month_file(t), TitleText(t)),
             index |-> idx, heading |-> heading, file |-> get_current_month_file(t)]
       ELSE [status |-> "success",
             docs |-> WithFile(d, get_current_month_file(t),
                        (IF get_current_month_file(t) \in DOMAIN d
                         THEN d[get_current_month_file(t)] ELSE TitleText(t))
                        \o EntryText(t, heading, content)),
             index |-> update_index(
                         WithFile(d, get_current_month_file(t),
                           (IF get_current_month_file(t) \in DOMAIN d
                            THEN d[get_current_month_file(t)] ELSE TitleText(t))
                           \o EntryText(t, heading, content)),
                         idx, t, order, "ok").index,
             heading |-> heading, file |-> get_current_month_file(t)]

\* a command 'replace' that puts the new content in the place of the document
\* that holds the heading
main_replacing(data, d, idx, t, order, io) ==
  IF data.command = "add"
  THEN add_note(d, idx, t, data.heading, data.content, order, io)
  ELSE [status |-> "success",
        docs |-> [f \in DOMAIN d |->
                    IF IsSub(<<"#", " ">> \o data.search_term, d[f])
                    THEN <<NL, "#", " ">> \o data.search_term \o <<NL>> \o data.content \o <<NL>>
                    ELSE d[f]],
        index |-> idx, heading |-> data.search_term, file |-> get_current_month_file(t)]

\* notes_manager.py, main, for the two commands quick_note.py sends: 'add',
\* and 'replace', which is none of the commands of lines 554-581 and gets the
\* help text
main(data, d, idx, t, order, io) ==
  IF data.command = "add"
  THEN add_note(d, idx, t, data.heading, data.content, order, io)
  ELSE [status |-> "help", docs |-> d, index |-> idx, heading |-> <<>>,
        file |-> get_current_month_file(t)]

Dots == <<".", ".", ".">>

\* quick_note.py, add_note, lines 162-165
QuickHeading(category, content) ==
  category \o CategorySep
  \o Strip(SelectSeq([i \in 1..Len(Take(content, 50)) |->
                        IF Take(content, 50)[i] = NL THEN " " ELSE Take(content, 50)[i]],
                     LAMBDA c : c # CR))
  \o (IF Len(content) > 50 THEN Dots ELSE <<>>)

\* quick_note.py, add_note: the command sent to notes_manager.py
AddCommand(category, content) ==
  [command |-> "add", heading |-> QuickHeading(category, content), content |-> content]

\* quick_note.py, replace_note: the command sent to notes_manager.py
ReplaceCommand(heading, content) ==
  [command |-> "replace", search_term |-> heading, content |-> content]

VALID_CATEGORIES ==
  { <<"W", "o", "r", "k">>,
    <<"L", "e", "a", "r", "n", "i", "n", "g">>,
    <<"M", "e", "e", "t", "i", "n", "g">>,
    <<"I", "d", "e", "a">>,
    <<"D", "e", "c", "i", "s", "i", "o", "n">>,
    <<"Q", "u", "e", "s", "t", "i", "o", "n">>,
    <<"R", "e", "f", "e", "r", "e", "n", "c", "e">>,
    <<"N", "o", "t", "e">> }

NoteTexts == { <<"x">>, <<"x", " ", "y">>, <<"c", "#">> }

Enriched == <<"e", "n", "r", "i", "c", "h", "e", "d">>

QuickArchives == {NoDocs, FileNov26 :> DocPlain, FileNov26 :> DocTitled}

MainThread == 1

EnrichThread == 2

InitQuick ==
  /\ docs \in QuickArchives
  /\ index = NoIndex
  /\ now = StartClock
  /\ resp = NoResp
  /\ pre = [docs |-> docs, index |-> NoIndex, now |-> StartClock]
  /\ hist = <<>>
  /\ pc = [p \in Procs |-> "idle"]
  /\ loc = [p \in Procs |-> NoLoc]
  /\ sc = NoScore

\* quick_note.py, main, lines 346-362: the category is inferred, the note is
\* saved by notes_manager.py, and on success the enrichment thread is started
Saved(r, note_text, category, api_success, skip_enrichment) ==
  /\ docs' = r.docs
  /\ index' = r.index
  /\ resp' = [op |-> "quick", query |-> <<>>, content |-> note_text, max |-> 0,
              out |-> [status |-> r.status]]
  /\ loc' = [loc EXCEPT ![MainThread] =
               [status |-> r.status, heading |-> r.heading, file |-> r.file,
                note_text |-> note_text, category |-> category,
                api_success |-> api_success, skip_enrichment |-> skip_enrichment],
                        ![EnrichThread] =
               [heading |-> r.heading, enriched |-> <<>>, replaced |-> FALSE]]
  /\ pc' = [pc EXCEPT ![MainThread] = IF r.status = "success" THEN "saved" ELSE "failed",
                      ![EnrichThread] =
                        IF r.status = "success" /\ ~skip_enrichment /\ api_success
                        THEN "api" ELSE "idle"]

QuickNote(note_text, category, api_success, skip_enrichment, order, io) ==
  /\ pc[MainThread] = "idle"
  /\ Saved(main(AddCommand(category, note_text), docs, index, now, order, io),
           note_text, category, api_success, skip_enrichment)
  /\ pre' = Snapshot
  /\ UNCHANGED <<now, hist, sc>>

\* enrich_note_async, _enrich: call_enrichment_api returns a text or None
EnrichCall(ok) ==
  /\ pc[EnrichThread] = "api"
  /\ pc' = [pc EXCEPT ![EnrichThread] = IF ok THEN "replace" ELSE "done"]
  /\ loc' = [loc EXCEPT ![EnrichThread].enriched = IF ok THEN Enriched ELSE <<>>]
  /\ UNCHANGED <<docs, index, now, resp, pre, hist, sc>>

\* replace_note: notes_manager.py runs with the command 'replace', or the
\* subprocess cannot be run
Replaced(r) ==
  /\ docs' = r.docs
  /\ index' = r.index
  /\ loc' = [loc EXCEPT ![EnrichThread].replaced = TRUE]

EnrichReplace(order, io) ==
  /\ pc[EnrichThread] \in {"replace", "orphan"}
  /\ IF io = "ok"
     THEN Replaced(main(ReplaceCommand(loc[EnrichThread].heading,
                                       loc[EnrichThread].enriched),
                        docs, index, now, order, io))
     ELSE Replaced([docs |-> docs, index |-> index])
  /\ pc' = [pc EXCEPT ![EnrichThread] =
              IF pc[EnrichThread] = "replace" THEN "done" ELSE "abandoned"]
  /\ UNCHANGED <<now, resp, pre, hist, sc>>

\* the main thread ends: _wait_for_enrichment joins the thread for at most 5
\* seconds, then the daemon thread is abandoned; a notes_manager.py it has
\* started may still run
QuickExit ==
  /\ pc[MainThread] \in {"saved", "failed"}
  /\ pc' = [pc EXCEPT ![MainThread] = "exited",
                      ![EnrichThread] =
                        IF pc[EnrichThread] = "api" THEN "abandoned"
                        ELSE IF pc[EnrichThread] = "replace" THEN "orphan"
                             ELSE pc[EnrichThread]]
  /\ UNCHANGED <<docs, index, now, resp, pre, hist, loc, sc>>

NextQuick ==
  \/ \E n \in NoteTexts, c \in VALID_CATEGORIES, a \in BOOLEAN, s \in BOOLEAN,
        o \in HashOrders, io \in {"ok", "add_fails", "entry_fails"} :
       QuickNote(n, c, a, s, o, io)
  \/ \E ok \in BOOLEAN : EnrichCall(ok)
  \/ \E o \in HashOrders, io \in {"ok", "subprocess_fails"} : EnrichReplace(o, io)
  \/ QuickExit

SpecQuick == InitQuick /\ [][NextQuick]_vars

(***************************************************************************)
(* Claims about quick notes                                                *)
(***************************************************************************)
\* the document f has the entry as add_note wrote it
NotePresent(d, f, heading, note_text) ==
  /\ f \in DOMAIN d
  /\ IsSub(<<NL, "#", " ">> \o heading \o <<NL>> \o Strip(note_text) \o <<NL>>, d[f])

\* C24: the enrichment thread runs only after the save has returned success,
\* with a category that was inferred and without --no-enrich; and whatever
\* the thread does, the saved note stays in its document with its content.
C24_EnrichmentKeepsNote ==
  /\ pc[EnrichThread] # "idle" =>
       /\ pc[MainThread] \in {"saved", "exited"}
       /\ loc[MainThread].status = "success"
       /\ loc[MainThread].api_success
       /\ ~loc[MainThread].skip_enrichment
  /\ (pc[MainThread] \in {"saved", "exited"} /\ loc[MainThread].status = "success") =>
       NotePresent(docs, loc[MainThread].file, loc[MainThread].heading,
                   loc[MainThread].note_text)

\* the thread has sent its replace command, the main thread has ended
C24_Witness ==
  /\ pc[MainThread] = "exited"
  /\ pc[EnrichThread] \in {"done", "abandoned"}
  /\ loc[EnrichThread].replaced


(***************************************************************************)
(* Claims about the headings append_to_entry looks for                     *)
(***************************************************************************)
\* line 228: line.strip() == f"# {target['heading']}" for a line of the text
HasHeadingLine(text, heading) ==
  \E line \in Range(SplitOn(text, NL)) : Strip(line) = <<"#", " ">> \o heading

\* C25: for every entry extract_entries returns from a document, the document
\* has a line whose stripped text is "# " and the heading of the entry, the
\* line that append_to_entry looks for.
C25_HeadingLineFound ==
  (sc.phase = "extracted" /\ sc.impl = "scripts") =>
    \A i \in 1..Len(sc.entries) : HasHeadingLine(sc.text, sc.entries[i].heading)


(***************************************************************************)
(* Appends to entries that have the query term in the body only            *)
(***************************************************************************)
MaxOccurrences == 11

\* an entry y whose body has the word x n times
BodyDoc(n) ==
  <<"#", " ", "y", NL>> \o Flatten([i \in 1..n |-> <<"x", " ">>]) \o <<NL>>

Occurrences == {0} \cup ((MaxOccurrences - 4)..MaxOccurrences)

\* one document, of this month or of a month more than 180 days ago
BodyArchives ==
  {f :> BodyDoc(n) : f \in {FileNov26, FileMar25}, n \in Occurrences}

BodyQueries == { <<"x">>, <<"q">> }

InitBody ==
  /\ docs \in BodyArchives
  /\ index = NoIndex
  /\ now = StartClock
  /\ resp = NoResp
  /\ pre = [docs |-> docs, index |-> NoIndex, now |-> StartClock]
  /\ hist = <<>>
  /\ pc = [p \in Procs |-> "idle"]
  /\ loc = [p \in Procs |-> NoLoc]
  /\ sc = NoScore

NextBody ==
  \/ \E q \in BodyQueries, c \in NewContents, o \in HashOrders, io \in IoModes :
       AppendCmd(q, c, o, io)
  \/ Exit

SpecBody == InitBody /\ [][NextBody]_vars

\* C26: when append_to_entry returns success, the heading of the entry it
\* chose has at least one of the terms of the query in it.
C26_HeadingHasTerm ==
  AppendReturned("success") =>
    \E term \in Range(SplitWS(Lower(resp.query))) :
      IsSub(term, Lower(resp.out.target.heading))


\* C27: append_to_entry with a search term that is empty or white space only
\* changes no document and ends in not_found or ambiguous.
C27_EmptyTermNoWrite ==
  (resp.op = "append" /\ Strip(resp.query) = <<>>) =>
    /\ resp.out.status \in {"not_found", "ambiguous"}
    /\ docs = pre.docs


(***************************************************************************)
(* The migration of legacy notes: scripts/migrate-legacy-notes.py          *)
(***************************************************************************)
\* the categories in the order of the dict, each with its keywords
CATEGORY_KEYWORDS ==
  << [category |-> <<"W", "o", "r", "k">>,
      keywords |->
        { <<"d", "e", "v", "e", "l", "o", "p">>,
          <<"f", "i", "x">>,
          <<"b", "u", "i", "l", "d">>,
          <<"d", "e", "p", "l", "o", "y">>,
          <<"s", "e", "t", "u", "p">>,
          <<"c", "o", "n", "f", "i", "g", "u", "r", "e">>,
          <<"m", "o", "v", "e">>,
          <<"i", "n", "s", "t", "a", "l", "l">>,
          <<"u", "p", "d", "a", "t", "e">>,
          <<"u", "p", "g", "r", "a", "d", "e">>,
          <<"m", "i", "g", "r", "a", "t", "e">>,
          <<"i", "m", "p", "l", "e", "m", "e", "n", "t">>,
          <<"c", "r", "e", "a", "t", "e">>,
          <<"d", "e", "b", "u", "g">>,
          <<"t", "r", "o", "u", "b", "l", "e", "s", "h", "o", "o", "t">>,
          <<"o", "p", "t", "i", "m", "i", "z", "e">>,
          <<"r", "e", "f", "a", "c", "t", "o", "r">>,
          <<"t", "e", "s", "t">>,
          <<"r", "e", "l", "e", "a", "s", "e">>,
          <<"a", "d", "a", "p", "t", "e", "r">>,
          <<"e", "p", "u", "b", "l", "i", "s", "h", "e", "r">>,
          <<"a", "w", "s">>,
          <<"d", "n", "s">>,
          <<"s", "e", "r", "v", "e", "r">>,
          <<"m", "a", "c", "h", "i", "n", "e">> }],
     [category |-> <<"M", "e", "e", "t", "i", "n", "g">>,
      keywords |->
        { <<"m", "e", "e", "t", "i", "n", "g">>,
          <<"d", "i", "s", "c", "u", "s", "s", "i", "o", "n">>,
          <<"c", "a", "l", "l">>,
          <<"s", "y", "n", "c">>,
          <<"s", "t", "a", "n", "d", "u", "p">>,
          <<"r", "e", "t", "r", "o", "s", "p", "e", "c", "t", "i", "v", "e">> }],
     [category |-> <<"H", "e", "a", "l", "t", "h">>,
      keywords |->
        { <<"s", "c", "a", "n">>,
          <<"r", "e", "s", "u", "l", "t", "s">>,
          <<"a", "p", "p", "o", "i", "n", "t", "m", "e", "n", "t">>,
          <<"c", "t">>,
          <<"d", "o", "c", "t", "o", "r">>,
          <<"m", "e", "d", "i", "c", "a", "l">>,
          <<"h", "e", "a", "l", "t", "h">>,
          <<"c", "h", "e", "s", "t">>,
          <<"c", "o", "n", "t", "r", "a", "s", "t">>,
          <<"m", "r", "i">>,
          <<"x", "r", "a", "y">> }],
     [category |-> <<"L", "e", "a", "r", "n", "i", "n", "g">>,
      keywords |->
        { <<"l", "e", "a", "r", "n">>,
          <<"t", "u", "t", "o", "r", "i", "a", "l">>,
          <<"r", "e", "s", "e", "a", "r", "c", "h">>,
          <<"s", "t", "u", "d", "y">>,
          <<"s", "k", "i", "l", "l", "s">>,
          <<"c", "o", "u", "r", "s", "e">>,
          <<"t", "r", "a", "i", "n", "i", "n", "g">>,
          <<"d", "o", "c", "u", "m", "e", "n", "t", "a", "t", "i", "o", "n">>,
          <<"g", "u", "i", "d", "e">>,
          <<"c", "l", "a", "u", "d", "e">>,
          <<"a", "i">> }],
     [category |-> <<"I", "d", "e", "a">>,
      keywords |->
        { <<"i", "d", "e", "a">>,
          <<"c", "o", "n", "c", "e", "p", "t">>,
          <<"p", "r", "o", "p", "o", "s", "a", "l">>,
          <<"b", "r", "a", "i", "n", "s", "t", "o", "r", "m">>,
          <<"t", "h", "i", "n", "k">>,
          <<"c", "o", "n", "s", "i", "d", "e", "r">> }],
     [category |-> <<"D", "e", "c", "i", "s", "i", "o", "n">>,
      keywords |->
        { <<"d", "e", "c", "i", "d", "e", "d">>,
          <<"c", "h", "o", "s", "e">>,
          <<"s", "e", "l", "e", "c", "t", "e", "d">>,
          <<"c", "a", "n", "c", "e", "l">>,
          <<"c", "a", "n", "c", "e", "l", "l", "e", "d">>,
          <<"a", "p", "p", "r", "o", "v", "e", "d">>,
          <<"r", "e", "j", "e", "c", "t", "e", "d">>,
          <<"a", "c", "c", "e", "p", "t", "e", "d">> }],
     [category |-> <<"T", "a", "s", "k">>,
      keywords |->
        { <<"t", "o", "d", "o">>,
          <<"t", "a", "s", "k">>,
          <<"a", "c", "t", "i", "o", "n">>,
          <<"n", "e", "e", "d", " ", "t", "o">>,
          <<"s", "h", "o", "u", "l", "d">>,
          <<"m", "u", "s", "t">> }] >>

DefaultCategory == <<"N", "o", "t", "e">>

\* infer_category: the first category that has a keyword in the heading
infer_category(heading) ==
  IF \E k \in 1..Len(CATEGORY_KEYWORDS) :
       \E w \in CATEGORY_KEYWORDS[k].keywords : IsSub(w, Lower(heading))
  THEN CATEGORY_KEYWORDS[
         SetMin({k \in 1..Len(CATEGORY_KEYWORDS) :
                   \E w \in CATEGORY_KEYWORDS[k].keywords : IsSub(w, Lower(heading))})
       ].category
  ELSE DefaultCategory

\* the characters \w matches
RegexWordChars == Letters \cup Digits \cup {"_"}

\* re.match(r'^# \w+ - ', line)
IsFormatted(line) ==
  /\ StartsWith(line, <<"#", " ">>)
  /\ \E n \in 1..(Len(line) - 5) :
       /\ \A i \in 3..(n + 2) : line[i] \in RegexWordChars
       /\ SubSeq(line, n + 3, n + 5) = CategorySep

\* line.lstrip('#')
LStripHash(line) ==
  SubSeq(line, Cardinality({i \in 1..Len(line) : \A j \in 1..i : line[j] = "#"}) + 1,
         Len(line))

\* process_heading: a formatted line is returned as it is, any other with its
\* category and a line end
process_heading(line) ==
  IF IsFormatted(line) THEN line
  ELSE <<"#", " ">> \o infer_category(Strip(LStripHash(line))) \o CategorySep
       \o Strip(LStripHash(line)) \o <<NL>>

\* line.startswith('# ') and not line.startswith('## ')
IsLegacyHeading(line) ==
  StartsWith(line, <<"#", " ">>) /\ ~StartsWith(line, <<"#", "#", " ">>)

\* process_file_content, lines 72-73
LegacyHeader(year, month_name) ==
  TitleOpen \o month_name \o <<" ">> \o year \o <<NL>>

\* process_file_content
process_file_content(content, year, month_name) ==
  LegacyHeader(year, month_name) \o <<NL>>
  \o Flatten([i \in 1..Len(SplitOn(content, NL)) |->
                IF IsLegacyHeading(SplitOn(content, NL)[i])
                THEN process_heading(SplitOn(content, NL)[i])
                ELSE SplitOn(content, NL)[i] \o <<NL>>])

\* the lines of a legacy file: a heading in Category - text form, a heading
\* with a keyword of Work, a heading without keyword, a second-level heading,
\* a body line, an empty line
LegacyLines ==
  { <<"#", " ", "W", "o", "r", "k", " ", "-", " ", "x">>,
    <<"#", " ", "f", "i", "x">>,
    <<"#", " ", "x">>,
    <<"#", "#", " ", "s">>,
    <<"a">>,
    <<>> }

MaxLegacyLines == 3

LegacyContents ==
  {JoinWith(ls, NL) : ls \in UNION {[1..n -> LegacyLines] : n \in 1..MaxLegacyLines}}

InitLegacy ==
  /\ docs = NoDocs
  /\ index = NoIndex
  /\ now = StartClock
  /\ resp = NoResp
  /\ pre = [docs |-> NoDocs, index |-> NoIndex, now |-> StartClock]
  /\ hist = <<>>
  /\ pc = [p \in Procs |-> "idle"]
  /\ loc = [p \in Procs |-> NoLoc]
  /\ sc \in [phase : {"legacy"}, content : LegacyContents,
             year : {<<"2", "0", "2", "5">>}, month : {5, 11}]

\* migrate_file: processed_content = process_file_content(content, year, month_name)
ProcessFile ==
  /\ sc.phase = "legacy"
  /\ sc' = [phase |-> "processed", content |-> sc.content, year |-> sc.year,
            month |-> sc.month,
            output |-> process_file_content(sc.content, sc.year, MonthNames[sc.month])]
  /\ UNCHANGED <<docs, index, now, resp, pre, hist, pc, loc>>

NextLegacy == ProcessFile

SpecLegacy == InitLegacy /\ [][NextLegacy]_vars

(***************************************************************************)
(* Claims about the migration of legacy notes                              *)
(***************************************************************************)
\* the output line for a source line
LegacyLineOut(line) ==
  IF IsLegacyHeading(line) /\ ~IsFormatted(line)
  THEN <<"#", " ">> \o infer_category(Strip(LStripHash(line))) \o CategorySep
       \o Strip(LStripHash(line))
  ELSE line

\* the header, an empty line, then the output line of every source line
LegacyExpected(content, year, month) ==
  JoinWith(<<TitleOpen \o MonthNames[month] \o <<" ">> \o year, <<>>>>
           \o [i \in 1..Len(SplitOn(content, NL)) |->
                 LegacyLineOut(SplitOn(content, NL)[i])],
           NL) \o <<NL>>

\* C28: the output of process_file_content is the header line, an empty line
\* and one line for every source line, in order: a top-level heading in
\* Category - text form and every line that is no top-level heading
\* unchanged, any other top-level heading as # <category> - <text>; every
\* output line ends before the next begins.
C28_LinePerLine ==
  sc.phase = "processed" => sc.output = LegacyExpected(sc.content, sc.year, sc.month)

\* the same for the files without a heading in Category - text form
LinePerLineUnformatted ==
  (sc.phase = "processed"
     /\ \A line \in Range(SplitOn(sc.content, NL)) : ~IsFormatted(line))
    => sc.output = LegacyExpected(sc.content, sc.year, sc.month)

====
